---- MODULE Spec2Model ----
(***************************************************************************)
(* The AVL-tree map of C-Experiments/map_with_function_pointers.c: the     *)
(* dynamic variant (map_t, nodes from malloc, optional dup/free callbacks) *)
(* and the static pool variant (u32map_t, nodes from a fixed array).       *)
(* Node pointers are addresses 1..n, the null pointer is 0.  Every C       *)
(* function is an operator from the memory it reads to the memory it       *)
(* leaves; a C loop is a RECURSIVE operator named after its function.      *)
(***************************************************************************)
EXTENDS Integers, Sequences, FiniteSets, TLC

\* Keys are 1..MaxKey; two values are told apart.
MaxKey == 4

NULL == 0

Keys == 1..MaxKey
Vals == {1, 2}

\* A caller of the pool map that starts from the empty map stores the keys
\* 1..MaxPoolKey and looks up and erases any key of Keys.
MaxPoolKey == 3
PoolKeys == 1..MaxPoolKey

\* More links than the longest path of a balanced tree of MAX_NODES nodes has.
FullDepth == 12

\* The dynamic variant has one heap block per key that can be stored: the keys
\* 1..MaxKey, and one key more in the runs that follow single calls step by step.
Addrs == 1..(MaxKey + 1)

Max(a, b) == IF a > b THEN a ELSE b

\* Bind(e, LAMBDA x : body) is body with x standing for the value of e: the
\* assignment of a C local that later statements read.
Bind(x, F(_)) == F(x)

(***************************************************************************)
(* Key and value objects (C void pointers).  A pointer names what it points *)
(* to: who allocated it and what it contains.  The caller's arguments are  *)
(* objects of the caller; a duplicate made by a dup callback is an object  *)
(* of the map with the same content.                                       *)
(***************************************************************************)
NullPtr == [own |-> "null", c |-> 0]
CallerPtr(c) == [own |-> "caller", c |-> c]
MapPtr(c) == [own |-> "map", c |-> c]

KeyArgs == {CallerPtr(k) : k \in Keys}
ValArgs == {CallerPtr(v) : v \in Vals}

(***************************************************************************)
(* The caller of main: it keeps one int variable v that it assigns before  *)
(* each call and passes as &v, and (for the same pattern on keys) one key  *)
(* buffer.  Unlike the objects above these two are written again after the *)
(* call, so what a pointer to them contains is read from the caller when   *)
(* the pointer is followed.                                                *)
(*   caller.kbuf, caller.v   what the key buffer and the variable v hold   *)
(*   caller.step, caller.rcs how far main has run, and what its calls      *)
(*                           returned                                      *)
(***************************************************************************)
VARIABLE caller

VarPtr == [own |-> "var", c |-> 0]
BufPtr == [own |-> "buf", c |-> 0]

DerefIn(cl, p) == IF p = VarPtr THEN cl.v ELSE IF p = BufPtr THEN cl.kbuf ELSE p.c

\* *p, for a key or value pointer p that is not NULL.
Deref(p) == DerefIn(caller, p)

\* A comparator with the sign of strcmp reversed.
cstr_cmp_reversed(a, b) == Deref(b) - Deref(a)

\* strcmp on the contents: negative, zero or positive.
cstr_cmp(a, b) == Deref(a) - Deref(b)

\* cstr_dup: NULL for NULL and when its malloc fails (ok is FALSE), else a fresh
\* copy.
cstr_dup(s, ok) == IF s = NullPtr \/ ~ok THEN NullPtr ELSE MapPtr(Deref(s))

\* int_dup: a fresh int holding *p, NULL when its malloc fails.
int_dup(p, ok) == IF ~ok THEN NullPtr ELSE MapPtr(Deref(p))

(***************************************************************************)
(* Dynamic variant: memory.                                                *)
(*   mp    the map handle (NULL when map_create failed)                    *)
(*   m     struct map: root, size and which callbacks are non-NULL         *)
(*   heap  the node blocks; live is the set of blocks malloc'ed and not    *)
(*         freed.  A block that is not live is never read by the code and  *)
(*         is kept as FreeBlock.                                           *)
(*   calls the calls of malloc, free, the callbacks and the rotations made  *)
(*         by the running operation, in order                              *)
(***************************************************************************)
FreeBlock == [key |-> NullPtr, value |-> NullPtr, left |-> NULL, right |-> NULL,
              parent |-> NULL, height |-> 0]

NoCallbacks == [key_dup |-> FALSE, key_free |-> FALSE, val_dup |-> FALSE, val_free |-> FALSE]
DupBoth == [key_dup |-> TRUE, key_free |-> TRUE, val_dup |-> TRUE, val_free |-> TRUE]
Policies == {NoCallbacks, DupBoth}

Call(fn, arg) == [fn |-> fn, arg |-> arg]

\* The log of a dup callback called on arg that returned ret: a callback that
\* returned NULL is followed by the entry dup_failed.
DupCalls(fn, arg, ret) ==
    <<Call(fn, arg)>> \o (IF ret = NullPtr THEN <<Call("dup_failed", arg)>> ELSE <<>>)

\* Which allocations of one call succeed: the malloc of the node, and the malloc
\* inside the key and the value dup callback.
AllocOk(node) == [node |-> node, key |-> TRUE, val |-> TRUE]

node_height(h, n) == IF n # NULL THEN h[n].height ELSE 0

update_height(h, n) ==
    IF n # NULL
    THEN LET hl == node_height(h, h[n].left)
             hr == node_height(h, h[n].right)
         IN [h EXCEPT ![n].height = (IF hl > hr THEN hl ELSE hr) + 1]
    ELSE h

NodePtr(n) == [own |-> "node", c |-> n]

\* malloc(sizeof(map_node_t)): NULL when the allocator has no memory (ok is
\* FALSE) or no block is left.  Which free block it returns is the allocator's
\* choice, and the code only ever compares node addresses for equality: the
\* block numbered like the key it is allocated for is taken when it is free,
\* else the lowest free block.
malloc(s, ok, for) ==
    LET free == Addrs \ s.live
    IN IF ~ok \/ free = {} THEN NULL
       ELSE IF for \in free THEN for
       ELSE CHOOSE a \in free : \A b \in free : a <= b

\* A node_new that duplicates the key and the value before it allocates the
\* node, and so has called both callbacks when malloc fails.
node_new_dups_first(s, key, value, ok) ==
    LET n == malloc(s, ok.node, Deref(key))
        k == IF s.m.key_dup THEN cstr_dup(key, ok.key) ELSE key
        v == IF s.m.val_dup THEN int_dup(value, ok.val) ELSE value
        ds == (IF s.m.key_dup THEN DupCalls("key_dup", key, k) ELSE <<>>)
              \o (IF s.m.val_dup THEN DupCalls("val_dup", value, v) ELSE <<>>)
    IN IF n = NULL
       THEN [s |-> [s EXCEPT !.calls = @ \o ds \o <<Call("malloc", NullPtr)>>], n |-> NULL]
       ELSE [s |-> [s EXCEPT !.heap[n] = [key |-> k, value |-> v, left |-> NULL,
                                          right |-> NULL, parent |-> NULL, height |-> 1],
                             !.live = @ \cup {n},
                             !.calls = @ \o ds \o <<Call("malloc", NodePtr(n))>>],
             n |-> n]

\* A node_new that stores the key and value pointers it was passed, although
\* it calls the dup callbacks.
node_new_stores_arguments(s, key, value, ok) ==
    LET n == malloc(s, ok.node, Deref(key))
    IN IF n = NULL THEN [s |-> [s EXCEPT !.calls = @ \o <<Call("malloc", NullPtr)>>],
                         n |-> NULL]
       ELSE [s |-> [s EXCEPT !.heap[n] = [key |-> key, value |-> value, left |-> NULL,
                                          right |-> NULL, parent |-> NULL, height |-> 1],
                             !.live = @ \cup {n},
                             !.calls = @ \o <<Call("malloc", NodePtr(n))>>
                                       \o (IF s.m.key_dup THEN <<Call("key_dup", key)>>
                                           ELSE <<>>)
                                       \o (IF s.m.val_dup THEN <<Call("val_dup", value)>>
                                           ELSE <<>>)],
             n |-> n]

\* Returns [s, n]: the memory after the call and the new node (or NULL).
node_new(s, key, value, ok) ==
    LET n == malloc(s, ok.node, Deref(key))
    IN IF n = NULL THEN [s |-> [s EXCEPT !.calls = @ \o <<Call("malloc", NullPtr)>>],
                         n |-> NULL]
       ELSE LET k == IF s.m.key_dup THEN cstr_dup(key, ok.key) ELSE key
                v == IF s.m.val_dup THEN int_dup(value, ok.val) ELSE value
                cs == <<Call("malloc", NodePtr(n))>>
                      \o (IF s.m.key_dup THEN DupCalls("key_dup", key, k) ELSE <<>>)
                      \o (IF s.m.val_dup THEN DupCalls("val_dup", value, v) ELSE <<>>)
            IN [s |-> [s EXCEPT !.heap[n] = [key |-> k, value |-> v, left |-> NULL,
                                             right |-> NULL, parent |-> NULL,
                                             height |-> 1],
                                !.live = @ \cup {n},
                                !.calls = @ \o cs],
                n |-> n]

\* A node_free that releases the key and the block but not the value.
node_free_keeps_value(s, n) ==
    IF n = NULL THEN s
    ELSE LET cs == (IF s.m.key_free /\ s.heap[n].key # NullPtr
                    THEN <<Call("key_free", s.heap[n].key)>> ELSE <<>>)
                   \o <<Call("free", NodePtr(n))>>
         IN [s EXCEPT !.heap[n] = FreeBlock, !.live = @ \ {n}, !.calls = @ \o cs]

node_free(s, n) ==
    IF n = NULL THEN s
    ELSE LET cs == (IF s.m.key_free /\ s.heap[n].key # NullPtr
                    THEN <<Call("key_free", s.heap[n].key)>> ELSE <<>>)
                   \o (IF s.m.val_free /\ s.heap[n].value # NullPtr
                       THEN <<Call("val_free", s.heap[n].value)>> ELSE <<>>)
                   \o <<Call("free", NodePtr(n))>>
         IN [s EXCEPT !.heap[n] = FreeBlock, !.live = @ \ {n}, !.calls = @ \o cs]

\* A right rotation that recomputes the height of the new subtree root x before
\* that of y, which has become its child.
rotate_right_heights_swapped(h, y) ==
    LET x == h[y].left
        T2 == h[x].right
        h1 == [h EXCEPT ![x].right = y, ![y].left = T2]
        h2 == IF T2 # NULL THEN [h1 EXCEPT ![T2].parent = y] ELSE h1
        h3 == [h2 EXCEPT ![x].parent = h2[y].parent]
        h4 == [h3 EXCEPT ![y].parent = x]
    IN [h |-> update_height(update_height(h4, x), y), ret |-> x,
        calls |-> <<Call("rotate_right", NodePtr(y))>>]

\* Returns [h, ret, calls]: the heap after the rotation, the new subtree root, and
\* the rotation as an entry of the call log.
rotate_right(h, y) ==
    LET x == h[y].left
        T2 == h[x].right
        h1 == [h EXCEPT ![x].right = y, ![y].left = T2]
        h2 == IF T2 # NULL THEN [h1 EXCEPT ![T2].parent = y] ELSE h1
        h3 == [h2 EXCEPT ![x].parent = h2[y].parent]
        h4 == [h3 EXCEPT ![y].parent = x]
    IN [h |-> update_height(update_height(h4, y), x), ret |-> x,
        calls |-> <<Call("rotate_right", NodePtr(y))>>]

\* A left rotation that leaves out x->parent = y.
rotate_left_keeps_parent(h, x) ==
    LET y == h[x].right
        T2 == h[y].left
        h1 == [h EXCEPT ![y].left = x, ![x].right = T2]
        h2 == IF T2 # NULL THEN [h1 EXCEPT ![T2].parent = x] ELSE h1
        h3 == [h2 EXCEPT ![y].parent = h2[x].parent]
    IN [h |-> update_height(update_height(h3, x), y), ret |-> y,
        calls |-> <<Call("rotate_left", NodePtr(x))>>]

rotate_left(h, x) ==
    LET y == h[x].right
        T2 == h[y].left
        h1 == [h EXCEPT ![y].left = x, ![x].right = T2]
        h2 == IF T2 # NULL THEN [h1 EXCEPT ![T2].parent = x] ELSE h1
        h3 == [h2 EXCEPT ![y].parent = h2[x].parent]
        h4 == [h3 EXCEPT ![x].parent = y]
    IN [h |-> update_height(update_height(h4, x), y), ret |-> y,
        calls |-> <<Call("rotate_left", NodePtr(x))>>]

set_child(s, parent, old_child, new_child) ==
    IF parent = NULL
    THEN LET s1 == [s EXCEPT !.m.root = new_child]
         IN IF new_child # NULL THEN [s1 EXCEPT !.heap[new_child].parent = NULL] ELSE s1
    ELSE LET s1 == IF s.heap[parent].left = old_child
                   THEN [s EXCEPT !.heap[parent].left = new_child]
                   ELSE [s EXCEPT !.heap[parent].right = new_child]
         IN IF new_child # NULL THEN [s1 EXCEPT !.heap[new_child].parent = parent] ELSE s1

\* A rebalance_at that recomputes the height and never rotates.
rebalance_at_no_rotation(h0, node) ==
    [h |-> update_height(h0, node), ret |-> node, calls |-> <<>>]

\* A rebalance_at that knows the single rotations only.
rebalance_at_single_only(h0, node) ==
    Bind(update_height(h0, node), LAMBDA h :
    Bind(node_height(h, h[node].left) - node_height(h, h[node].right), LAMBDA balance :
      IF balance > 1 THEN rotate_right(h, node)
      ELSE IF balance < -1 THEN rotate_left(h, node)
      ELSE [h |-> h, ret |-> node, calls |-> <<>>]))

\* A rebalance_at that compares the grandchild heights with > instead of >=: on
\* equal heights it makes the double rotation.
rebalance_at_strict(h0, node) ==
    Bind(update_height(h0, node), LAMBDA h :
    Bind(node_height(h, h[node].left) - node_height(h, h[node].right), LAMBDA balance :
      IF balance > 1
      THEN IF node_height(h, h[h[node].left].left) > node_height(h, h[h[node].left].right)
           THEN rotate_right(h, node)
           ELSE Bind(rotate_left(h, h[node].left), LAMBDA r :
                Bind([r.h EXCEPT ![node].left = r.ret], LAMBDA h1 :
                Bind(IF h1[node].left # NULL
                     THEN [h1 EXCEPT ![h1[node].left].parent = node] ELSE h1, LAMBDA h2 :
                  [rotate_right(h2, node) EXCEPT !.calls = r.calls \o @])))
      ELSE IF balance < -1
      THEN IF node_height(h, h[h[node].right].right) > node_height(h, h[h[node].right].left)
           THEN rotate_left(h, node)
           ELSE Bind(rotate_right(h, h[node].right), LAMBDA r :
                Bind([r.h EXCEPT ![node].right = r.ret], LAMBDA h1 :
                Bind(IF h1[node].right # NULL
                     THEN [h1 EXCEPT ![h1[node].right].parent = node] ELSE h1, LAMBDA h2 :
                  [rotate_left(h2, node) EXCEPT !.calls = r.calls \o @])))
      ELSE [h |-> h, ret |-> node, calls |-> <<>>]))

\* Returns [h, ret, calls]: the heap after rebalancing, the node now at node's
\* position, and the rotations made.
rebalance_at(h0, node) ==
    Bind(update_height(h0, node), LAMBDA h :
    Bind(node_height(h, h[node].left) - node_height(h, h[node].right), LAMBDA balance :
      IF balance > 1
      THEN IF node_height(h, h[h[node].left].left) >= node_height(h, h[h[node].left].right)
           THEN rotate_right(h, node)
           ELSE Bind(rotate_left(h, h[node].left), LAMBDA r :
                Bind([r.h EXCEPT ![node].left = r.ret], LAMBDA h1 :
                Bind(IF h1[node].left # NULL
                     THEN [h1 EXCEPT ![h1[node].left].parent = node] ELSE h1, LAMBDA h2 :
                  [rotate_right(h2, node) EXCEPT !.calls = r.calls \o @])))
      ELSE IF balance < -1
      THEN IF node_height(h, h[h[node].right].right) >= node_height(h, h[h[node].right].left)
           THEN rotate_left(h, node)
           ELSE Bind(rotate_right(h, h[node].right), LAMBDA r :
                Bind([r.h EXCEPT ![node].right = r.ret], LAMBDA h1 :
                Bind(IF h1[node].right # NULL
                     THEN [h1 EXCEPT ![h1[node].right].parent = node] ELSE h1, LAMBDA h2 :
                  [rotate_left(h2, node) EXCEPT !.calls = r.calls \o @])))
      ELSE [h |-> h, ret |-> node, calls |-> <<>>]))

\* map_create: NULL without a comparator or when malloc fails.
map_create(cmpGiven, policy, ok) ==
    IF ~cmpGiven \/ ~ok
    THEN [mp |-> NULL, m |-> [root |-> NULL, size |-> 0] @@ NoCallbacks]
    ELSE [mp |-> 1, m |-> [root |-> NULL, size |-> 0] @@ policy]

RECURSIVE find_node_loop(_, _, _)
find_node_loop(h, cur, key) ==
    IF cur = NULL THEN NULL
    ELSE LET c == cstr_cmp(key, h[cur].key)
         IN IF c = 0 THEN cur
            ELSE find_node_loop(h, IF c < 0 THEN h[cur].left ELSE h[cur].right, key)

\* A find_node that returns the root when the key is in no node.
find_node_else_root(s, key) ==
    IF find_node_loop(s.heap, s.m.root, key) = NULL THEN s.m.root
    ELSE find_node_loop(s.heap, s.m.root, key)

find_node(s, key) == find_node_loop(s.heap, s.m.root, key)

\* One pass of the loop that map_insert and map_erase both end with: rebalance
\* at p, hang the new subtree root where p was, and go on to its parent.
\* Returns [s, p].
rebalance_step(s, p) ==
    Bind(rebalance_at(s.heap, p), LAMBDA r :
    Bind(set_child([s EXCEPT !.heap = r.h, !.calls = @ \o r.calls],
                   r.h[r.ret].parent, p, r.ret), LAMBDA s1 :
      [s |-> s1, p |-> s1.heap[r.ret].parent]))

\* The loop: the walk from p up to the root.
RECURSIVE rebalance_up(_, _)
rebalance_up(s, p) ==
    IF p = NULL THEN s
    ELSE Bind(rebalance_step(s, p), LAMBDA w : rebalance_up(w.s, w.p))

clear_root_parent(s) ==
    IF s.m.root # NULL /\ s.heap[s.m.root].parent # NULL
    THEN [s EXCEPT !.heap[s.m.root].parent = NULL]
    ELSE s

\* A descent that does not stop at an equal key: it goes on to the right.
RECURSIVE insert_descend_no_equal(_, _, _, _, _)
insert_descend_no_equal(h, cur, parent, cmpv, key) ==
    IF cur = NULL THEN [found |-> FALSE, parent |-> parent, cmpv |-> cmpv]
    ELSE insert_descend_no_equal(h, IF cstr_cmp(key, h[cur].key) < 0
                                    THEN h[cur].left ELSE h[cur].right,
                                 cur, cstr_cmp(key, h[cur].key), key)

\* The descent of map_insert: [found, parent, cmpv].
RECURSIVE insert_descend(_, _, _, _, _)
insert_descend(h, cur, parent, cmpv, key) ==
    IF cur = NULL THEN [found |-> FALSE, parent |-> parent, cmpv |-> cmpv]
    ELSE LET c == cstr_cmp(key, h[cur].key)
         IN IF c = 0 THEN [found |-> TRUE, parent |-> parent, cmpv |-> c]
            ELSE insert_descend(h, IF c < 0 THEN h[cur].left ELSE h[cur].right, cur, c, key)

\* map_insert up to its rebalancing loop.  Returns [s, rc, walk, p]: walk says
\* that the call has attached a node below the root and goes on to the loop, which
\* starts at p; otherwise the call returns rc at once.
insert_attach(s, key, value, ok) ==
    IF s.mp = NULL THEN [s |-> s, rc |-> -1, walk |-> FALSE, p |-> NULL]
    ELSE IF s.m.root = NULL
    THEN Bind(node_new(s, key, value, ok), LAMBDA r :
           IF r.n = NULL THEN [s |-> r.s, rc |-> -1, walk |-> FALSE, p |-> NULL]
           ELSE [s |-> [r.s EXCEPT !.m.root = r.n, !.m.size = 1], rc |-> 1,
                 walk |-> FALSE, p |-> NULL])
    ELSE Bind(insert_descend(s.heap, s.m.root, NULL, 0, key), LAMBDA d :
           IF d.found THEN [s |-> s, rc |-> 0, walk |-> FALSE, p |-> NULL]
           ELSE Bind(node_new(s, key, value, ok), LAMBDA r :
                  IF r.n = NULL THEN [s |-> r.s, rc |-> -1, walk |-> FALSE, p |-> NULL]
                  ELSE Bind([r.s EXCEPT !.heap[r.n].parent = d.parent], LAMBDA s1 :
                       Bind(IF d.cmpv < 0
                            THEN [s1 EXCEPT !.heap[d.parent].left = r.n]
                            ELSE [s1 EXCEPT !.heap[d.parent].right = r.n], LAMBDA s2 :
                       Bind([s2 EXCEPT !.m.size = @ + 1], LAMBDA s3 :
                         [s |-> s3, rc |-> 1, walk |-> TRUE, p |-> s3.heap[r.n].parent])))))

\* Returns [s, rc].
map_insert(s, key, value, ok) ==
    Bind(insert_attach(s, key, value, ok), LAMBDA a :
      IF a.walk THEN [s |-> clear_root_parent(rebalance_up(a.s, a.p)), rc |-> 1]
      ELSE [s |-> a.s, rc |-> a.rc])

\* A map_put that duplicates the new value before it releases the old one.
map_put_dups_first(s, key, value, ok) ==
    IF s.mp = NULL THEN [s |-> s, rc |-> -1]
    ELSE Bind(find_node(s, key), LAMBDA existing :
           IF existing # NULL
           THEN Bind(IF s.m.val_dup
                     THEN [s EXCEPT !.calls = @ \o DupCalls("val_dup", value,
                                                             int_dup(value, ok.val))]
                     ELSE s, LAMBDA s1 :
                Bind(IF s.m.val_free
                     THEN [s1 EXCEPT !.calls = @ \o <<Call("val_free", s.heap[existing].value)>>]
                     ELSE s1, LAMBDA s2 :
                  [s |-> [s2 EXCEPT !.heap[existing].value
                                      = IF s.m.val_dup THEN int_dup(value, ok.val) ELSE value],
                   rc |-> 2]))
           ELSE map_insert(s, key, value, ok))

\* A map_put that, on an existing key, replaces the stored key as well: it
\* releases it and stores a duplicate of the key passed.
map_put_replaces_key(s, key, value, ok) ==
    IF s.mp = NULL THEN [s |-> s, rc |-> -1]
    ELSE Bind(find_node(s, key), LAMBDA existing :
           IF existing # NULL
           THEN Bind(IF s.m.key_free
                     THEN [s EXCEPT !.calls = @ \o <<Call("key_free", s.heap[existing].key)>>]
                     ELSE s, LAMBDA s0 :
                Bind(IF s.m.key_dup
                     THEN [s0 EXCEPT !.heap[existing].key = cstr_dup(key, ok.key),
                                     !.calls = @ \o DupCalls("key_dup", key,
                                                              cstr_dup(key, ok.key))]
                     ELSE [s0 EXCEPT !.heap[existing].key = key], LAMBDA s1 :
                Bind(IF s.m.val_free
                     THEN [s1 EXCEPT !.calls = @ \o <<Call("val_free", s.heap[existing].value)>>]
                     ELSE s1, LAMBDA s2 :
                  [s |-> IF s.m.val_dup
                         THEN [s2 EXCEPT !.heap[existing].value = int_dup(value, ok.val),
                                         !.calls = @ \o DupCalls("val_dup", value,
                                                                  int_dup(value, ok.val))]
                         ELSE [s2 EXCEPT !.heap[existing].value = value],
                   rc |-> 2])))
           ELSE map_insert(s, key, value, ok))

\* A map_put that replaces the value without releasing the one stored.
map_put_keeps_old_value(s, key, value, ok) ==
    IF s.mp = NULL THEN [s |-> s, rc |-> -1]
    ELSE Bind(find_node(s, key), LAMBDA existing :
           IF existing # NULL
           THEN [s |-> IF s.m.val_dup
                       THEN [s EXCEPT !.heap[existing].value = int_dup(value, ok.val),
                                      !.calls = @ \o DupCalls("val_dup", value,
                                                               int_dup(value, ok.val))]
                       ELSE [s EXCEPT !.heap[existing].value = value],
                 rc |-> 2]
           ELSE map_insert(s, key, value, ok))

map_put(s, key, value, ok) ==
    IF s.mp = NULL THEN [s |-> s, rc |-> -1]
    ELSE Bind(find_node(s, key), LAMBDA existing :
           IF existing # NULL
           THEN Bind(IF s.m.val_free
                     THEN [s EXCEPT !.calls = @ \o <<Call("val_free", s.heap[existing].value)>>]
                     ELSE s, LAMBDA s1 :
                  [s |-> IF s.m.val_dup
                         THEN [s1 EXCEPT !.heap[existing].value = int_dup(value, ok.val),
                                         !.calls = @ \o DupCalls("val_dup", value,
                                                                  int_dup(value, ok.val))]
                         ELSE [s1 EXCEPT !.heap[existing].value = value],
                   rc |-> 2])
           ELSE map_insert(s, key, value, ok))

\* A map_find that looks at the root only.
map_find_root_only(s, key) ==
    IF s.m.root # NULL /\ cstr_cmp(key, s.heap[s.m.root].key) = 0
    THEN s.heap[s.m.root].value ELSE NullPtr

\* The stored value pointer, NullPtr when the key is not found.
map_find(s, key) ==
    LET n == find_node(s, key)
    IN IF n # NULL THEN s.heap[n].value ELSE NullPtr

\* A subtree_min whose loop does not descend: it returns the subtree's root.
subtree_min_loop_no_descent(h, n) == n

RECURSIVE subtree_min_loop(_, _)
subtree_min_loop(h, n) == IF h[n].left # NULL THEN subtree_min_loop(h, h[n].left) ELSE n

subtree_min(h, n) == IF n = NULL THEN NULL ELSE subtree_min_loop(h, n)

\* An erase_node that leaves out m->size--.
RECURSIVE erase_node_keeps_size(_, _)
erase_node_keeps_size(s, n) ==
    IF n = NULL THEN [s |-> s, ret |-> NULL]
    ELSE IF s.heap[n].left # NULL /\ s.heap[n].right # NULL
    THEN Bind(subtree_min(s.heap, s.heap[n].right), LAMBDA suc :
           erase_node_keeps_size([s EXCEPT !.heap[n].key = s.heap[suc].key,
                                           !.heap[suc].key = s.heap[n].key,
                                           !.heap[n].value = s.heap[suc].value,
                                           !.heap[suc].value = s.heap[n].value], suc))
    ELSE Bind(IF s.heap[n].left # NULL THEN s.heap[n].left ELSE s.heap[n].right, LAMBDA child :
         Bind(s.heap[n].parent, LAMBDA parent :
         Bind(IF parent = NULL
              THEN [s EXCEPT !.m.root = child]
              ELSE IF s.heap[parent].left = n
              THEN [s EXCEPT !.heap[parent].left = child]
              ELSE [s EXCEPT !.heap[parent].right = child], LAMBDA t :
         Bind(IF child # NULL THEN [t EXCEPT !.heap[child].parent = parent] ELSE t, LAMBDA s1 :
           [s |-> node_free(s1, n), ret |-> parent]))))

\* An erase_node that swaps the keys of the node and its successor, but not
\* their values.
RECURSIVE erase_node_swaps_key_only(_, _)
erase_node_swaps_key_only(s, n) ==
    IF n = NULL THEN [s |-> s, ret |-> NULL]
    ELSE IF s.heap[n].left # NULL /\ s.heap[n].right # NULL
    THEN Bind(subtree_min(s.heap, s.heap[n].right), LAMBDA suc :
           erase_node_swaps_key_only([s EXCEPT !.heap[n].key = s.heap[suc].key,
                                               !.heap[suc].key = s.heap[n].key], suc))
    ELSE Bind(IF s.heap[n].left # NULL THEN s.heap[n].left ELSE s.heap[n].right, LAMBDA child :
         Bind(s.heap[n].parent, LAMBDA parent :
         Bind(IF parent = NULL
              THEN [s EXCEPT !.m.root = child]
              ELSE IF s.heap[parent].left = n
              THEN [s EXCEPT !.heap[parent].left = child]
              ELSE [s EXCEPT !.heap[parent].right = child], LAMBDA t :
         Bind(IF child # NULL THEN [t EXCEPT !.heap[child].parent = parent] ELSE t, LAMBDA s1 :
           [s |-> [node_free(s1, n) EXCEPT !.m.size = @ - 1], ret |-> parent]))))

\* Returns [s, ret]: ret is the parent where rebalancing continues.
RECURSIVE erase_node(_, _)
erase_node(s, n) ==
    IF n = NULL THEN [s |-> s, ret |-> NULL]
    ELSE IF s.heap[n].left # NULL /\ s.heap[n].right # NULL
    THEN Bind(subtree_min(s.heap, s.heap[n].right), LAMBDA suc :
           erase_node([s EXCEPT !.heap[n].key = s.heap[suc].key,
                                !.heap[suc].key = s.heap[n].key,
                                !.heap[n].value = s.heap[suc].value,
                                !.heap[suc].value = s.heap[n].value], suc))
    ELSE Bind(IF s.heap[n].left # NULL THEN s.heap[n].left ELSE s.heap[n].right, LAMBDA child :
         Bind(s.heap[n].parent, LAMBDA parent :
         Bind(IF parent = NULL
              THEN [s EXCEPT !.m.root = child]
              ELSE IF s.heap[parent].left = n
              THEN [s EXCEPT !.heap[parent].left = child]
              ELSE [s EXCEPT !.heap[parent].right = child], LAMBDA t :
         Bind(IF child # NULL THEN [t EXCEPT !.heap[child].parent = parent] ELSE t, LAMBDA s1 :
           [s |-> [node_free(s1, n) EXCEPT !.m.size = @ - 1], ret |-> parent]))))

\* A map_erase that does not walk up from the erased node to rebalance.
map_erase_no_rebalance(s, key) ==
    IF s.mp = NULL THEN [s |-> s, rc |-> 0]
    ELSE Bind(find_node(s, key), LAMBDA n :
           IF n = NULL THEN [s |-> s, rc |-> 0]
           ELSE [s |-> clear_root_parent(erase_node(s, n).s), rc |-> 1])

\* map_erase up to its rebalancing loop.  Returns [s, rc, walk, p], as
\* insert_attach does.
erase_detach(s, key) ==
    IF s.mp = NULL THEN [s |-> s, rc |-> 0, walk |-> FALSE, p |-> NULL]
    ELSE Bind(find_node(s, key), LAMBDA n :
           IF n = NULL THEN [s |-> s, rc |-> 0, walk |-> FALSE, p |-> NULL]
           ELSE Bind(erase_node(s, n), LAMBDA e :
                  [s |-> e.s, rc |-> 1, walk |-> TRUE, p |-> e.ret]))

map_erase(s, key) ==
    Bind(erase_detach(s, key), LAMBDA a :
      IF a.walk THEN [s |-> clear_root_parent(rebalance_up(a.s, a.p)), rc |-> 1]
      ELSE [s |-> a.s, rc |-> a.rc])

map_size(s) == IF s.mp # NULL THEN s.m.size ELSE 0

\* A free_subtree that does not descend into the right subtree.
RECURSIVE free_subtree_left_only(_, _)
free_subtree_left_only(s, n) ==
    IF n = NULL THEN s
    ELSE node_free(free_subtree_left_only(s, s.heap[n].left), n)

RECURSIVE free_subtree(_, _)
free_subtree(s, n) ==
    IF n = NULL THEN s
    ELSE LET l == s.heap[n].left
             r == s.heap[n].right
         IN node_free(free_subtree(free_subtree(s, l), r), n)

map_clear(s) ==
    IF s.mp = NULL THEN s
    ELSE [free_subtree(s, s.m.root) EXCEPT !.m.root = NULL, !.m.size = 0]

HandlePtr(h) == [own |-> "handle", c |-> h]

\* map_clear, then free(m); with a null handle nothing happens.
map_destroy(s) ==
    IF s.mp = NULL THEN s
    ELSE [map_clear(s) EXCEPT !.calls = @ \o <<Call("free", HandlePtr(s.mp))>>]

map_begin(s) == IF s.mp # NULL THEN subtree_min(s.heap, s.m.root) ELSE NULL

map_end(s) == NULL

RECURSIVE map_next_up(_, _, _)
map_next_up(h, p, cur) ==
    IF p # NULL /\ h[p].right = cur THEN map_next_up(h, h[p].parent, p) ELSE p

\* A map_next that steps to the right child itself, not to the leftmost node
\* below it.
map_next_right_child(h, it) ==
    IF it = NULL THEN NULL
    ELSE IF h[it].right # NULL THEN h[it].right
    ELSE map_next_up(h, h[it].parent, it)

map_next(h, it) ==
    IF it = NULL THEN NULL
    ELSE IF h[it].right # NULL THEN subtree_min_loop(h, h[it].right)
    ELSE map_next_up(h, h[it].parent, it)

RECURSIVE subtree_max_loop(_, _)
subtree_max_loop(h, n) == IF h[n].right # NULL THEN subtree_max_loop(h, h[n].right) ELSE n

RECURSIVE map_prev_up(_, _, _)
map_prev_up(h, p, cur) ==
    IF p # NULL /\ h[p].left = cur THEN map_prev_up(h, h[p].parent, p) ELSE p

\* A map_prev that steps to the left child itself, not to the rightmost node
\* below it.
map_prev_left_child(h, it) ==
    IF it = NULL THEN NULL
    ELSE IF h[it].left # NULL THEN h[it].left
    ELSE map_prev_up(h, h[it].parent, it)

map_prev(h, it) ==
    IF it = NULL THEN NULL
    ELSE IF h[it].left # NULL THEN subtree_max_loop(h, h[it].left)
    ELSE map_prev_up(h, h[it].parent, it)

map_iter_key(h, it) == IF it # NULL THEN h[it].key ELSE NullPtr

map_iter_value(h, it) == IF it # NULL THEN h[it].value ELSE NullPtr


(***************************************************************************)
(* Static pool variant (u32map_t): uint32_t keys, function-pointer values  *)
(* (0 is the null function pointer), nodes are the slots of pool[],        *)
(* slot i of the C array being address i + 1.  p is the u32map_t record    *)
(* [pool, size, root], with the call log of the running operation.        *)
(***************************************************************************)
VARIABLE strategy

MAX_NODES == 256

Slots == 1..MAX_NODES

pool_node_height(pl, n) == IF n # NULL THEN pl[n].height ELSE 0

pool_update_height(pl, n) ==
    IF n # NULL
    THEN LET hl == pool_node_height(pl, pl[n].left)
             hr == pool_node_height(pl, pl[n].right)
         IN [pl EXCEPT ![n].height = (IF hl > hr THEN hl ELSE hr) + 1]
    ELSE pl

pool_init ==
    [calls |-> <<>>, size |-> 0, root |-> NULL,
     pool |-> [i \in Slots |-> [in_use |-> 0, left |-> NULL, right |-> NULL,
                                parent |-> NULL, height |-> 0, key |-> 0,
                                value |-> NULL]]]

\* A scan that stops one slot short of the end of the pool.
node_alloc_scan_one_short(pl, i) ==
    IF \A j \in i..(MAX_NODES - 1) : pl[j].in_use # 0 THEN NULL
    ELSE CHOOSE j \in i..(MAX_NODES - 1) :
            pl[j].in_use = 0 /\ \A q \in i..(j - 1) : pl[q].in_use # 0

\* The scan of node_alloc from slot i on: the first slot not in use, that is the
\* slot not in use before which every slot is in use, or NULL when the loop
\* runs to the end.
node_alloc_scan(pl, i) ==
    IF \A j \in i..MAX_NODES : pl[j].in_use # 0 THEN NULL
    ELSE CHOOSE j \in i..MAX_NODES :
            pl[j].in_use = 0 /\ \A q \in i..(j - 1) : pl[q].in_use # 0

\* Returns [p, n].
node_alloc(p) ==
    LET n == node_alloc_scan(p.pool, 1)
    IN IF n = NULL THEN [p |-> p, n |-> NULL]
       ELSE [p |-> [p EXCEPT !.pool[n].in_use = 1, !.pool[n].left = NULL,
                             !.pool[n].right = NULL, !.pool[n].parent = NULL,
                             !.pool[n].height = 1, !.pool[n].value = NULL],
             n |-> n]

\* A node_free that leaves the slot marked as in use.
pool_node_free_keeps_in_use(p, n) ==
    IF n = NULL THEN p
    ELSE [p EXCEPT !.pool[n].left = NULL, !.pool[n].right = NULL,
                   !.pool[n].parent = NULL, !.pool[n].height = 0, !.pool[n].value = NULL]

pool_node_free(p, n) ==
    IF n = NULL THEN p
    ELSE [p EXCEPT !.pool[n].in_use = 0, !.pool[n].left = NULL, !.pool[n].right = NULL,
                   !.pool[n].parent = NULL, !.pool[n].height = 0, !.pool[n].value = NULL]

pool_rotate_right(pl, y) ==
    LET x == pl[y].left
        T2 == pl[x].right
        h1 == [pl EXCEPT ![x].right = y, ![y].left = T2]
        h2 == IF T2 # NULL THEN [h1 EXCEPT ![T2].parent = y] ELSE h1
        h3 == [h2 EXCEPT ![x].parent = h2[y].parent]
        h4 == [h3 EXCEPT ![y].parent = x]
    IN [h |-> pool_update_height(pool_update_height(h4, y), x), ret |-> x,
        calls |-> <<Call("rotate_right", NodePtr(y))>>]

pool_rotate_left(pl, x) ==
    LET y == pl[x].right
        T2 == pl[y].left
        h1 == [pl EXCEPT ![y].left = x, ![x].right = T2]
        h2 == IF T2 # NULL THEN [h1 EXCEPT ![T2].parent = x] ELSE h1
        h3 == [h2 EXCEPT ![y].parent = h2[x].parent]
        h4 == [h3 EXCEPT ![x].parent = y]
    IN [h |-> pool_update_height(pool_update_height(h4, x), y), ret |-> y,
        calls |-> <<Call("rotate_left", NodePtr(x))>>]

pool_set_child(p, parent, old_child, new_child) ==
    IF parent = NULL
    THEN LET p1 == [p EXCEPT !.root = new_child]
         IN IF new_child # NULL THEN [p1 EXCEPT !.pool[new_child].parent = NULL] ELSE p1
    ELSE LET p1 == IF p.pool[parent].left = old_child
                   THEN [p EXCEPT !.pool[parent].left = new_child]
                   ELSE [p EXCEPT !.pool[parent].right = new_child]
         IN IF new_child # NULL THEN [p1 EXCEPT !.pool[new_child].parent = parent] ELSE p1

pool_rebalance_at(pl0, node) ==
    IF node = NULL THEN [h |-> pl0, ret |-> NULL, calls |-> <<>>]
    ELSE
    Bind(pool_update_height(pl0, node), LAMBDA h :
    Bind(pool_node_height(h, h[node].left) - pool_node_height(h, h[node].right), LAMBDA balance :
      IF balance > 1
      THEN IF pool_node_height(h, h[h[node].left].left)
                >= pool_node_height(h, h[h[node].left].right)
           THEN pool_rotate_right(h, node)
           ELSE Bind(pool_rotate_left(h, h[node].left), LAMBDA r :
                Bind([r.h EXCEPT ![node].left = r.ret], LAMBDA h1 :
                Bind(IF h1[node].left # NULL
                     THEN [h1 EXCEPT ![h1[node].left].parent = node] ELSE h1, LAMBDA h2 :
                  [pool_rotate_right(h2, node) EXCEPT !.calls = r.calls \o @])))
      ELSE IF balance < -1
      THEN IF pool_node_height(h, h[h[node].right].right)
                >= pool_node_height(h, h[h[node].right].left)
           THEN pool_rotate_left(h, node)
           ELSE Bind(pool_rotate_right(h, h[node].right), LAMBDA r :
                Bind([r.h EXCEPT ![node].right = r.ret], LAMBDA h1 :
                Bind(IF h1[node].right # NULL
                     THEN [h1 EXCEPT ![h1[node].right].parent = node] ELSE h1, LAMBDA h2 :
                  [pool_rotate_left(h2, node) EXCEPT !.calls = r.calls \o @])))
      ELSE [h |-> h, ret |-> node, calls |-> <<>>]))

map_init == pool_init

RECURSIVE pool_find_node_loop(_, _, _)
pool_find_node_loop(pl, cur, key) ==
    IF cur = NULL THEN NULL
    ELSE IF key = pl[cur].key THEN cur
    ELSE pool_find_node_loop(pl, IF key < pl[cur].key THEN pl[cur].left ELSE pl[cur].right, key)

pool_find_node(p, key) == pool_find_node_loop(p.pool, p.root, key)

RECURSIVE pool_rebalance_up(_, _)
pool_rebalance_up(p, q) ==
    IF q = NULL THEN p
    ELSE Bind(pool_rebalance_at(p.pool, q), LAMBDA r :
         Bind(pool_set_child([p EXCEPT !.pool = r.h, !.calls = @ \o r.calls],
                             r.h[r.ret].parent, q, r.ret), LAMBDA p1 :
           pool_rebalance_up(p1, p1.pool[r.ret].parent)))

pool_clear_root_parent(p) ==
    IF p.root # NULL /\ p.pool[p.root].parent # NULL
    THEN [p EXCEPT !.pool[p.root].parent = NULL]
    ELSE p

RECURSIVE pool_insert_descend(_, _, _, _, _)
pool_insert_descend(pl, cur, parent, cmpv, key) ==
    IF cur = NULL THEN [found |-> FALSE, parent |-> parent, cmpv |-> cmpv]
    ELSE IF key = pl[cur].key THEN [found |-> TRUE, parent |-> parent, cmpv |-> cmpv]
    ELSE IF key < pl[cur].key
    THEN pool_insert_descend(pl, pl[cur].left, cur, -1, key)
    ELSE pool_insert_descend(pl, pl[cur].right, cur, 1, key)

\* Returns [p, rc].
pool_map_insert(p, key, value) ==
    IF p.root = NULL
    THEN Bind(node_alloc(p), LAMBDA r :
           IF r.n = NULL THEN [p |-> p, rc |-> -1]
           ELSE [p |-> [r.p EXCEPT !.pool[r.n].key = key, !.pool[r.n].value = value,
                                   !.root = r.n, !.size = 1],
                 rc |-> 1])
    ELSE Bind(pool_insert_descend(p.pool, p.root, NULL, 0, key), LAMBDA d :
           IF d.found THEN [p |-> p, rc |-> 0]
           ELSE Bind(node_alloc(p), LAMBDA r :
                  IF r.n = NULL THEN [p |-> p, rc |-> -1]
                  ELSE Bind([r.p EXCEPT !.pool[r.n].key = key, !.pool[r.n].value = value,
                                        !.pool[r.n].parent = d.parent], LAMBDA p1 :
                       Bind(IF d.cmpv < 0
                            THEN [p1 EXCEPT !.pool[d.parent].left = r.n]
                            ELSE [p1 EXCEPT !.pool[d.parent].right = r.n], LAMBDA p2 :
                       Bind([p2 EXCEPT !.size = @ + 1], LAMBDA p3 :
                         [p |-> pool_clear_root_parent(
                                    pool_rebalance_up(p3, p3.pool[r.n].parent)),
                          rc |-> 1])))))

pool_map_put(p, key, value) ==
    LET ex == pool_find_node(p, key)
    IN IF ex # NULL
       THEN [p |-> [p EXCEPT !.pool[ex].value = value], rc |-> 2]
       ELSE pool_map_insert(p, key, value)

pool_map_find(p, key) ==
    LET n == pool_find_node(p, key)
    IN IF n # NULL THEN p.pool[n].value ELSE NULL

\* A pool subtree_min whose loop does not descend.
pool_subtree_min_loop_no_descent(pl, n) == n

RECURSIVE pool_subtree_min_loop(_, _)
pool_subtree_min_loop(pl, n) ==
    IF pl[n].left # NULL THEN pool_subtree_min_loop(pl, pl[n].left) ELSE n

pool_subtree_min(pl, n) == IF n = NULL THEN NULL ELSE pool_subtree_min_loop(pl, n)

RECURSIVE pool_erase_node(_, _)
pool_erase_node(p, n) ==
    IF n = NULL THEN [p |-> p, ret |-> NULL]
    ELSE IF p.pool[n].left # NULL /\ p.pool[n].right # NULL
    THEN Bind(pool_subtree_min(p.pool, p.pool[n].right), LAMBDA suc :
           pool_erase_node([p EXCEPT !.pool[n].key = p.pool[suc].key,
                                     !.pool[suc].key = p.pool[n].key,
                                     !.pool[n].value = p.pool[suc].value,
                                     !.pool[suc].value = p.pool[n].value], suc))
    ELSE Bind(IF p.pool[n].left # NULL THEN p.pool[n].left ELSE p.pool[n].right, LAMBDA child :
         Bind(p.pool[n].parent, LAMBDA parent :
         Bind(IF parent = NULL
              THEN [p EXCEPT !.root = child]
              ELSE IF p.pool[parent].left = n
              THEN [p EXCEPT !.pool[parent].left = child]
              ELSE [p EXCEPT !.pool[parent].right = child], LAMBDA t :
         Bind(IF child # NULL THEN [t EXCEPT !.pool[child].parent = parent] ELSE t, LAMBDA p1 :
         Bind(pool_node_free(p1, n), LAMBDA p2 :
           [p |-> IF p2.size > 0 THEN [p2 EXCEPT !.size = @ - 1] ELSE p2,
            ret |-> parent])))))

pool_map_erase(p, key) ==
    Bind(pool_find_node(p, key), LAMBDA n :
      IF n = NULL THEN [p |-> p, rc |-> 0]
      ELSE Bind(pool_erase_node(p, n), LAMBDA e :
             [p |-> pool_clear_root_parent(pool_rebalance_up(e.p, e.ret)), rc |-> 1]))

pool_map_size(p) == p.size

pool_map_begin(p) == pool_subtree_min(p.pool, p.root)

RECURSIVE pool_map_next_up(_, _, _)
pool_map_next_up(pl, q, cur) ==
    IF q # NULL /\ pl[q].right = cur THEN pool_map_next_up(pl, pl[q].parent, q) ELSE q

pool_map_next(pl, it) ==
    IF it = NULL THEN NULL
    ELSE IF pl[it].right # NULL THEN pool_subtree_min_loop(pl, pl[it].right)
    ELSE pool_map_next_up(pl, pl[it].parent, it)


(***************************************************************************)
(* The state machine.  One map is created (dynamic variant, by map_create) *)
(* or initialised (pool variant, by map_init) and then used by a single    *)
(* caller, one call at a time.                                             *)
(*   strategy  which variant this run uses: "dynamic", "pool", or          *)
(*             "lockstep" (both, given the same calls)                     *)
(*   pc        "open", "destroyed" (after map_destroy), "crashed", or      *)
(*             "nullkey" (a node with a NULL key has been linked)          *)
(*   mp, m, heap, live   the dynamic map (see above)                       *)
(*   pm        the u32map_t                                                *)
(*   last      the last call: its name, arguments (key and value content), *)
(*             return code, returned pointer or iterator, and its call log *)
(*   net       calls that returned Inserted minus calls that returned      *)
(*             Erased since creation or the last clear                     *)
(***************************************************************************)
VARIABLES pc, mp, m, heap, live, pm, last, net

vars == <<strategy, pc, mp, m, heap, live, pm, last, net, caller>>

dyn == <<mp, m, heap, live>>

S == [mp |-> mp, m |-> m, heap |-> heap, live |-> live, calls |-> <<>>]

Commit(s) == /\ mp' = s.mp
             /\ m' = s.m
             /\ heap' = s.heap
             /\ live' = s.live

Ret(op, k, v, rc, out, it, calls) ==
    [op |-> op, key |-> k, value |-> v, rc |-> rc, out |-> out, it |-> it,
     calls |-> calls]

Init ==
    /\ strategy \in {"dynamic", "pool"}
    /\ pc = "open"
    /\ \E cmpGiven \in BOOLEAN, policy \in Policies, ok \in BOOLEAN :
          LET c == map_create(cmpGiven, policy, ok)
          IN /\ mp = (IF strategy = "dynamic" THEN c.mp ELSE NULL)
             /\ m = (IF strategy = "dynamic" THEN c.m
                     ELSE [root |-> NULL, size |-> 0] @@ NoCallbacks)
    /\ heap = [a \in Addrs |-> FreeBlock]
    /\ live = {}
    /\ pm = map_init
    /\ last = Ret("create", 0, 0, 0, NullPtr, NULL, <<>>)
    /\ net = 0
    /\ caller = [kbuf |-> 0, v |-> 0, step |-> 0, rcs |-> <<>>]

(***************************************************************************)
(* Heap blocks are interchangeable: the code stores node addresses and     *)
(* compares them for equality, and does nothing else with them.  A run is  *)
(* therefore kept up to the numbering of its blocks: after an erase, which *)
(* moves keys between nodes, each live block is renumbered by the key it   *)
(* holds (the number malloc gave it).  Nothing is renumbered when a link   *)
(* does not lead to a live block or two live blocks hold the same key.     *)
(***************************************************************************)
Renumber(s) ==
    LET ptrs == {s.m.root} \cup UNION {{s.heap[a].left, s.heap[a].right, s.heap[a].parent} :
                                        a \in s.live}
        to(a) == IF a = NULL THEN NULL ELSE s.heap[a].key.c
    IN IF /\ ptrs \subseteq s.live \cup {NULL}
          /\ \A a \in s.live : s.heap[a].key.c \in Addrs
          /\ \A a, b \in s.live : s.heap[a].key.c = s.heap[b].key.c => a = b
       THEN [s EXCEPT !.m.root = to(s.m.root),
                      !.live = {to(a) : a \in s.live},
                      !.heap = [b \in Addrs |->
                                  IF \E a \in s.live : to(a) = b
                                  THEN LET a == CHOOSE a \in s.live : to(a) = b
                                       IN [s.heap[a] EXCEPT !.left = to(@), !.right = to(@),
                                                            !.parent = to(@)]
                                  ELSE FreeBlock]]
       ELSE s

Dynamic == strategy = "dynamic" /\ pc = "open"

Pool == strategy = "pool" /\ pc = "open"

\* The call op(k, v) has returned r = [s, rc]: the memory it leaves is the
\* program's, and a return code of 1 (Inserted, Erased) counts d in net.
Returned(op, k, v, r, d) ==
    /\ Commit(r.s)
    /\ last' = Ret(op, k, v, r.rc, NullPtr, NULL, r.s.calls)
    /\ net' = IF r.rc = 1 THEN net + d ELSE net

Renumbered(r) == [r EXCEPT !.s = Renumber(@)]

Insert(k, v, ok) ==
    /\ Dynamic
    /\ Returned("insert", k, v, map_insert(S, CallerPtr(k), CallerPtr(v), AllocOk(ok)), 1)
    /\ UNCHANGED <<strategy, pc, pm, caller>>

Put(k, v, ok) ==
    /\ Dynamic
    /\ Returned("put", k, v, map_put(S, CallerPtr(k), CallerPtr(v), AllocOk(ok)), 1)
    /\ UNCHANGED <<strategy, pc, pm, caller>>

Erase(k) ==
    /\ Dynamic
    /\ Returned("erase", k, 0, Renumbered(map_erase(S, CallerPtr(k))), -1)
    /\ UNCHANGED <<strategy, pc, pm, caller>>

\* map_find has no check of m: with a null handle find_node reads m->root through
\* it, which is undefined: the call crashes or returns any pointer.
Find(k) ==
    /\ Dynamic
    /\ IF mp # NULL
       THEN /\ last' = Ret("find", k, 0, 0, map_find(S, CallerPtr(k)), NULL, <<>>)
            /\ pc' = pc
       ELSE \/ /\ pc' = "crashed"
               /\ last' = Ret("find", k, 0, 0, NullPtr, NULL, <<>>)
            \/ /\ pc' = pc
               /\ \E out \in {NullPtr} \cup ValArgs :
                     last' = Ret("find", k, 0, 0, out, NULL, <<>>)
    /\ UNCHANGED <<strategy, mp, m, heap, live, pm, net, caller>>

Size ==
    /\ Dynamic
    /\ last' = Ret("size", 0, 0, map_size(S), NullPtr, NULL, <<>>)
    /\ UNCHANGED <<strategy, pc, mp, m, heap, live, pm, net, caller>>

\* An iterator call returned it: the caller reads the key and the value under it
\* with map_iter_key and map_iter_value.
IterRet(op, it) ==
    Ret(op, Deref(map_iter_key(heap, it)), 0, 0, map_iter_value(heap, it), it, <<>>)

\* The calls after which the caller holds an iterator of the map as it is now.
IterOps == {"begin", "end", "next", "prev"}

Begin ==
    /\ Dynamic
    /\ last' = IterRet("begin", map_begin(S))
    /\ UNCHANGED <<strategy, pc, mp, m, heap, live, pm, net, caller>>

End ==
    /\ Dynamic
    /\ last' = IterRet("end", map_end(S))
    /\ UNCHANGED <<strategy, pc, mp, m, heap, live, pm, net, caller>>

IterNext ==
    /\ Dynamic
    /\ last.op \in IterOps
    /\ last' = IterRet("next", map_next(heap, last.it))
    /\ UNCHANGED <<strategy, pc, mp, m, heap, live, pm, net, caller>>

IterPrev ==
    /\ Dynamic
    /\ last.op \in IterOps
    /\ last' = IterRet("prev", map_prev(heap, last.it))
    /\ UNCHANGED <<strategy, pc, mp, m, heap, live, pm, net, caller>>

\* map_clear has returned, leaving memory s: nothing is stored any more.
Cleared(op, s) ==
    /\ Commit(s)
    /\ last' = Ret(op, 0, 0, 0, NullPtr, NULL, s.calls)
    /\ net' = 0

Clear ==
    /\ Dynamic
    /\ Cleared("clear", map_clear(S))
    /\ UNCHANGED <<strategy, pc, pm, caller>>

\* After map_destroy the handle is dead: the run ends.
Destroy ==
    /\ Dynamic
    /\ Cleared("destroy", map_destroy(S))
    /\ pc' = IF mp # NULL THEN "destroyed" ELSE pc
    /\ UNCHANGED <<strategy, pm, caller>>

\* The pool call op(k, v) has returned r = [p, rc].
PoolReturned(op, k, v, r, d) ==
    /\ pm' = [r.p EXCEPT !.calls = <<>>]
    /\ last' = Ret(op, k, v, r.rc, NullPtr, NULL, r.p.calls)
    /\ net' = IF r.rc = 1 THEN net + d ELSE net

PoolInsert(k, v) ==
    /\ Pool
    /\ PoolReturned("insert", k, v, pool_map_insert(pm, k, v), 1)
    /\ UNCHANGED <<strategy, pc, mp, m, heap, live, caller>>

PoolPut(k, v) ==
    /\ Pool
    /\ PoolReturned("put", k, v, pool_map_put(pm, k, v), 1)
    /\ UNCHANGED <<strategy, pc, mp, m, heap, live, caller>>

PoolErase(k) ==
    /\ Pool
    /\ PoolReturned("erase", k, 0, pool_map_erase(pm, k), -1)
    /\ UNCHANGED <<strategy, pc, mp, m, heap, live, caller>>

\* The function pointer found is reported by its number (0 for NULL).
PoolFind(k) ==
    /\ Pool
    /\ last' = Ret("find", k, 0, pool_map_find(pm, k), NullPtr, NULL, <<>>)
    /\ UNCHANGED <<strategy, pc, mp, m, heap, live, pm, net, caller>>

PoolSize ==
    /\ Pool
    /\ last' = Ret("size", 0, 0, pool_map_size(pm), NullPtr, NULL, <<>>)
    /\ UNCHANGED <<strategy, pc, mp, m, heap, live, pm, net, caller>>

\* The caller reads it->key and it->value of the node returned (main's loop).
PoolIterRet(op, it) ==
    Ret(op, IF it # NULL THEN pm.pool[it].key ELSE 0, 0,
        IF it # NULL THEN pm.pool[it].value ELSE NULL, NullPtr, it, <<>>)

PoolBegin ==
    /\ Pool
    /\ last' = PoolIterRet("begin", pool_map_begin(pm))
    /\ UNCHANGED <<strategy, pc, mp, m, heap, live, pm, net, caller>>

PoolNext ==
    /\ Pool
    /\ last.op \in IterOps
    /\ last' = PoolIterRet("next", pool_map_next(pm.pool, last.it))
    /\ UNCHANGED <<strategy, pc, mp, m, heap, live, pm, net, caller>>

Next ==
    \/ \E k \in Keys, v \in Vals, ok \in BOOLEAN : Insert(k, v, ok)
    \/ \E k \in Keys, v \in Vals, ok \in BOOLEAN : Put(k, v, ok)
    \/ \E k \in Keys : Erase(k)
    \/ \E k \in Keys : Find(k)
    \/ Size
    \/ Begin
    \/ End
    \/ IterNext
    \/ IterPrev
    \/ Clear
    \/ Destroy
    \/ \E k \in PoolKeys, v \in Vals : PoolInsert(k, v)
    \/ \E k \in PoolKeys, v \in Vals : PoolPut(k, v)
    \/ \E k \in Keys : PoolErase(k)
    \/ \E k \in Keys : PoolFind(k)
    \/ PoolSize
    \/ PoolBegin
    \/ PoolNext

Spec == Init /\ [][Next]_vars

(***************************************************************************)
(* The pool map close to its capacity.  The run starts when the keys      *)
(* MaxKey + 1 .. MAX_NODES + 1 have been inserted into the initialised     *)
(* map, in increasing order, each with the value 1: with the keys of Keys  *)
(* there is one key more than the pool has slots.  Fill makes the calls    *)
(* and counts those that returned Inserted; it keeps what the last call    *)
(* returned and the rotations it made.                                     *)
(***************************************************************************)

\* The calls for the keys lo..hi, first those of the lower half.
RECURSIVE Fill(_, _, _)
Fill(f, lo, hi) ==
    IF lo > hi THEN f
    ELSE IF lo = hi
    THEN Bind(pool_map_insert(f.p, lo, 1), LAMBDA r :
           [p |-> [r.p EXCEPT !.calls = <<>>],
            inserted |-> f.inserted + (IF r.rc = 1 THEN 1 ELSE 0),
            rc |-> r.rc,
            calls |-> r.p.calls])
    ELSE Bind(Fill(f, lo, (lo + hi) \div 2), LAMBDA g :
           IF g.inserted >= 0 THEN Fill(g, (lo + hi) \div 2 + 1, hi) ELSE g)

Filled ==
    Fill([p |-> map_init, inserted |-> 0, rc |-> 0, calls |-> <<>>], MaxKey + 1, MAX_NODES + 1)

InitFull ==
    /\ strategy = "pool"
    /\ pc = "open"
    /\ mp = NULL
    /\ m = [root |-> NULL, size |-> 0] @@ NoCallbacks
    /\ heap = [a \in Addrs |-> FreeBlock]
    /\ live = {}
    /\ pm = Filled.p
    /\ last = Ret("insert", MAX_NODES + 1, 1, Filled.rc, NullPtr, NULL, Filled.calls)
    /\ net = Filled.inserted
    /\ caller = [kbuf |-> 0, v |-> 0, step |-> 0, rcs |-> <<>>]

NextFull ==
    \/ \E k \in Keys : PoolInsert(k, 1)
    \/ \E k \in Keys : PoolPut(k, 1)
    \/ \E k \in Keys : PoolErase(k)

SpecFull == InitFull /\ [][NextFull]_vars

(***************************************************************************)
(* The dynamic map with duplicating callbacks whose own malloc may fail:   *)
(* cstr_dup and int_dup then return NULL.  Once a node with a NULL key is  *)
(* linked, every later descent passes NULL to strcmp, which is undefined:  *)
(* the run is followed up to that point.                                   *)
(***************************************************************************)
InitDupFail == Init /\ strategy = "dynamic" /\ mp # NULL /\ m.key_dup /\ m.val_dup

\* The node is allocated and at least one of the two dup callbacks fails.
FailedDups == {[node |-> TRUE, key |-> kd, val |-> vd] : kd, vd \in BOOLEAN} \ {AllocOk(TRUE)}

DupFailed(op, k, v, r) ==
    /\ Returned(op, k, v, r, 1)
    /\ pc' = IF \E a \in r.s.live : r.s.heap[a].key = NullPtr THEN "nullkey" ELSE pc

InsertDupFails(k, v, ok) ==
    /\ Dynamic
    /\ DupFailed("insert", k, v, map_insert(S, CallerPtr(k), CallerPtr(v), ok))
    /\ UNCHANGED <<strategy, pm, caller>>

PutDupFails(k, v, ok) ==
    /\ Dynamic
    /\ DupFailed("put", k, v, map_put(S, CallerPtr(k), CallerPtr(v), ok))
    /\ UNCHANGED <<strategy, pm, caller>>

NextDupFail ==
    \/ \E k \in Keys, v \in Vals, ok \in FailedDups : InsertDupFails(k, v, ok)
    \/ \E k \in Keys, v \in Vals, ok \in FailedDups : PutDupFails(k, v, ok)
    \/ \E k \in Keys, v \in Vals, ok \in BOOLEAN : Insert(k, v, ok)
    \/ \E k \in Keys, v \in Vals, ok \in BOOLEAN : Put(k, v, ok)
    \/ \E k \in Keys : Erase(k)
    \/ \E k \in Keys : Find(k)
    \/ Clear

SpecDupFail == InitDupFail /\ [][NextDupFail]_vars

(***************************************************************************)
(* The dynamic map used as main uses it: the caller passes &v, and its key  *)
(* from one buffer, and writes both again between the calls.  A call is    *)
(* made once both have been assigned.                                      *)
(***************************************************************************)
InitCaller == Init /\ strategy = "dynamic" /\ mp # NULL

Assigned == caller.kbuf \in Keys /\ caller.v \in Vals

\* v = x;
CallerSets(x) ==
    /\ Dynamic /\ x # caller.v
    /\ caller' = [caller EXCEPT !.v = x]
    /\ UNCHANGED <<strategy, pc, mp, m, heap, live, pm, last, net>>

\* The caller writes the key k into its buffer.
CallerFills(k) ==
    /\ Dynamic /\ k # caller.kbuf
    /\ caller' = [caller EXCEPT !.kbuf = k]
    /\ UNCHANGED <<strategy, pc, mp, m, heap, live, pm, last, net>>

InsertVars ==
    /\ Dynamic /\ Assigned
    /\ Returned("insert", caller.kbuf, caller.v, map_insert(S, BufPtr, VarPtr, AllocOk(TRUE)), 1)
    /\ UNCHANGED <<strategy, pc, pm, caller>>

PutVars ==
    /\ Dynamic /\ Assigned
    /\ Returned("put", caller.kbuf, caller.v, map_put(S, BufPtr, VarPtr, AllocOk(TRUE)), 1)
    /\ UNCHANGED <<strategy, pc, pm, caller>>

EraseBuf ==
    /\ Dynamic /\ Assigned
    /\ Returned("erase", caller.kbuf, 0, Renumbered(map_erase(S, BufPtr)), -1)
    /\ UNCHANGED <<strategy, pc, pm, caller>>

FindBuf ==
    /\ Dynamic /\ Assigned
    /\ last' = Ret("find", caller.kbuf, 0, 0, map_find(S, BufPtr), NULL, <<>>)
    /\ UNCHANGED <<strategy, pc, mp, m, heap, live, pm, net, caller>>

NextCaller ==
    \/ \E x \in Vals : CallerSets(x)
    \/ \E k \in Keys : CallerFills(k)
    \/ InsertVars
    \/ PutVars
    \/ EraseBuf
    \/ FindBuf
    \/ Clear

SpecCaller == InitCaller /\ [][NextCaller]_vars

(***************************************************************************)
(* The example run: a map from strings to ints that copies both, and the   *)
(* statements of main in their order (the assignments to v and the calls   *)
(* that change the map).  The keys "apple" < "banana" < "orange" are 1, 2  *)
(* and 3.  Between the statements the caller may look at the map: size,    *)
(* find, iteration.  When main's statements are done, a caller that goes   *)
(* on may erase the key main erased last once more (EraseAgain); main      *)
(* itself ends with map_destroy.                                           *)
(***************************************************************************)
Script ==
    << [op |-> "set", key |-> 0, value |-> 42], [op |-> "insert", key |-> 1, value |-> 0],
       [op |-> "set", key |-> 0, value |-> 7], [op |-> "insert", key |-> 3, value |-> 0],
       [op |-> "set", key |-> 0, value |-> 13], [op |-> "put", key |-> 2, value |-> 0],
       [op |-> "set", key |-> 0, value |-> 100], [op |-> "put", key |-> 1, value |-> 0],
       [op |-> "erase", key |-> 3, value |-> 0] >>

InitScenario == Init /\ strategy = "dynamic" /\ mp # NULL /\ m.key_dup /\ m.val_dup

\* The call st of the script has returned r = [s, rc].
ScriptReturned(st, r) ==
    /\ Commit(r.s)
    /\ last' = Ret(st.op, st.key, caller.v, r.rc, NullPtr, NULL, r.s.calls)
    /\ net' = net + (IF r.rc # 1 THEN 0 ELSE IF st.op = "erase" THEN -1 ELSE 1)
    /\ caller' = [caller EXCEPT !.step = @ + 1, !.rcs = Append(@, r.rc)]

ScriptCall(st) ==
    IF st.op = "insert" THEN map_insert(S, CallerPtr(st.key), VarPtr, AllocOk(TRUE))
    ELSE IF st.op = "put" THEN map_put(S, CallerPtr(st.key), VarPtr, AllocOk(TRUE))
    ELSE Renumbered(map_erase(S, CallerPtr(st.key)))

\* The next statement of the script.
ScriptStep ==
    /\ Dynamic
    /\ caller.step < Len(Script)
    /\ IF Script[caller.step + 1].op = "set"
       THEN /\ caller' = [caller EXCEPT !.step = @ + 1, !.v = Script[caller.step + 1].value]
            /\ UNCHANGED <<mp, m, heap, live, last, net>>
       ELSE ScriptReturned(Script[caller.step + 1], ScriptCall(Script[caller.step + 1]))
    /\ UNCHANGED <<strategy, pc, pm>>

\* map_erase of the key of main's last statement, called after it; last.again
\* tells this call from main's.
EraseAgain ==
    /\ Dynamic
    /\ caller.step = Len(Script)
    /\ Bind(Renumbered(map_erase(S, CallerPtr(Script[Len(Script)].key))), LAMBDA r :
          /\ Commit(r.s)
          /\ last' = Ret("erase", Script[Len(Script)].key, 0, r.rc, NullPtr, NULL, r.s.calls)
                       @@ [again |-> TRUE]
          /\ net' = IF r.rc = 1 THEN net - 1 ELSE net)
    /\ UNCHANGED <<strategy, pc, pm, caller>>

\* main's last call: map_destroy(m), line 822.
MainDestroys == caller.step = Len(Script) /\ Destroy

NextScenario ==
    \/ ScriptStep
    \/ EraseAgain
    \/ MainDestroys
    \/ \E k \in Keys : Find(k)
    \/ Size
    \/ Begin
    \/ End
    \/ IterNext
    \/ IterPrev

SpecScenario == InitScenario /\ [][NextScenario]_vars

(***************************************************************************)
(* The two variants side by side: one dynamic map and one pool map are     *)
(* given the same calls, one call at a time: inserts of the value 1 and    *)
(* puts of the value 2 over the keys of Keys, far fewer than the pool has  *)
(* slots.  The dynamic map copies keys and values, as the map of main      *)
(* does.  last holds what the dynamic call returned and, under pool, what  *)
(* the pool call returned.                                                 *)
(***************************************************************************)
InitLockstep ==
    /\ strategy = "lockstep"
    /\ pc = "open"
    /\ mp = map_create(TRUE, DupBoth, TRUE).mp
    /\ m = map_create(TRUE, DupBoth, TRUE).m
    /\ heap = [a \in Addrs |-> FreeBlock]
    /\ live = {}
    /\ pm = map_init
    /\ last = Ret("create", 0, 0, 0, NullPtr, NULL, <<>>)
                @@ [pool |-> [rc |-> 0, out |-> NULL, calls |-> <<>>]]
    /\ net = 0
    /\ caller = [kbuf |-> 0, v |-> 0, step |-> 0, rcs |-> <<>>]

Lockstep == strategy = "lockstep" /\ pc = "open"


\* The dynamic call has returned r = [s, rc] and the pool call q = [p, rc].
BothReturned(op, k, v, r, q) ==
    /\ Commit(r.s)
    /\ pm' = [q.p EXCEPT !.calls = <<>>]
    /\ last' = Ret(op, k, v, r.rc, NullPtr, NULL, r.s.calls)
                 @@ [pool |-> [rc |-> q.rc, out |-> NULL, calls |-> q.p.calls]]
    /\ net' = IF r.rc = 1 THEN net + (IF op = "erase" THEN -1 ELSE 1) ELSE net

BothInsert(k, v) ==
    /\ Lockstep
    /\ BothReturned("insert", k, v, map_insert(S, CallerPtr(k), CallerPtr(v), AllocOk(TRUE)),
                    pool_map_insert(pm, k, v))
    /\ UNCHANGED <<strategy, pc, caller>>

BothPut(k, v) ==
    /\ Lockstep
    /\ BothReturned("put", k, v, map_put(S, CallerPtr(k), CallerPtr(v), AllocOk(TRUE)),
                    pool_map_put(pm, k, v))
    /\ UNCHANGED <<strategy, pc, caller>>

BothErase(k) ==
    /\ Lockstep
    /\ BothReturned("erase", k, 0, Renumbered(map_erase(S, CallerPtr(k))),
                    pool_map_erase(pm, k))
    /\ UNCHANGED <<strategy, pc, caller>>

BothFind(k) ==
    /\ Lockstep
    /\ last' = Ret("find", k, 0, 0, map_find(S, CallerPtr(k)), NULL, <<>>)
                 @@ [pool |-> [rc |-> 0, out |-> pool_map_find(pm, k), calls |-> <<>>]]
    /\ UNCHANGED <<strategy, pc, mp, m, heap, live, pm, net, caller>>

NextLockstep ==
    \/ \E k \in Keys : BothInsert(k, 1)
    \/ \E k \in Keys : BothPut(k, 2)
    \/ \E k \in Keys : BothErase(k)
    \/ \E k \in Keys : BothFind(k)

SpecLockstep == InitLockstep /\ [][NextLockstep]_vars

(***************************************************************************)
(* One insert or erase of the dynamic map followed through its rebalancing *)
(* loop: the call runs up to the loop, then every pass of the loop is a    *)
(* step, then the call returns.  While pc = "walk" the call is inside the  *)
(* loop, nothing else runs, and                                            *)
(*   last.p       is the loop variable p, the node the next pass is at     *)
(*   last.before  is the memory as it was when the call was made           *)
(* Keys are 1..MaxKey + 1: a tree of that many keys has rotations below    *)
(* the root and, on erase, at nodes whose grandchildren are equally high.  *)
(***************************************************************************)
WalkKeys == 1..(MaxKey + 1)

InitWalk == Init /\ strategy = "dynamic" /\ mp # NULL

\* The call op(k, v) has run up to its loop (or has returned): a is what
\* insert_attach or erase_detach returns.
Attached(op, k, v, a) ==
    /\ Commit(a.s)
    /\ last' = Ret(op, k, v, a.rc, NullPtr, NULL, a.s.calls) @@ [p |-> a.p, before |-> S]
    /\ net' = IF a.rc = 1 THEN net + (IF op = "erase" THEN -1 ELSE 1) ELSE net
    /\ pc' = IF a.walk THEN "walk" ELSE pc

InsertStart(k, v) ==
    /\ Dynamic
    /\ Attached("insert", k, v, insert_attach(S, CallerPtr(k), CallerPtr(v), AllocOk(TRUE)))
    /\ UNCHANGED <<strategy, pm, caller>>

EraseStart(k) ==
    /\ Dynamic
    /\ Attached("erase", k, 0, erase_detach(S, CallerPtr(k)))
    /\ UNCHANGED <<strategy, pm, caller>>

\* while (p) { ... }: one pass.
WalkStep ==
    /\ strategy = "dynamic" /\ pc = "walk" /\ last.p # NULL
    /\ Bind(rebalance_step([S EXCEPT !.calls = last.calls], last.p), LAMBDA w :
          /\ Commit(w.s)
          /\ last' = [last EXCEPT !.p = w.p, !.calls = w.s.calls])
    /\ UNCHANGED <<strategy, pc, pm, net, caller>>

\* The loop has ended: the root's parent is cleared and the call returns.
WalkEnd ==
    /\ strategy = "dynamic" /\ pc = "walk" /\ last.p = NULL
    /\ Commit(Renumber(clear_root_parent(S)))
    /\ pc' = "open"
    /\ UNCHANGED <<strategy, pm, last, net, caller>>

NextWalk ==
    \/ \E k \in WalkKeys, v \in Vals : InsertStart(k, v)
    \/ \E k \in WalkKeys : EraseStart(k)
    \/ WalkStep
    \/ WalkEnd

SpecWalk == InitWalk /\ [][NextWalk]_vars

(***************************************************************************)
(* Whole calls on a dynamic map of up to MaxKey + 1 keys: with five keys   *)
(* an insert rotates below the root, where the rotated subtree is linked   *)
(* back under a parent, and an erase meets a node with two children that   *)
(* is not the root.  Inserts store the value 1 and puts the value 2; the   *)
(* node of an insert or put may fail to be allocated.  The pool map is     *)
(* given the calls it is given in Spec.                                    *)
(***************************************************************************)
InitDeep == Init /\ (strategy = "dynamic" => mp # NULL)

NextDeep ==
    \/ \E k \in WalkKeys, ok \in BOOLEAN : Insert(k, 1, ok)
    \/ \E k \in WalkKeys, ok \in BOOLEAN : Put(k, 2, ok)
    \/ \E k \in WalkKeys : Erase(k)
    \/ \E k \in PoolKeys : PoolInsert(k, 1)
    \/ \E k \in PoolKeys : PoolPut(k, 2)
    \/ \E k \in Keys : PoolErase(k)

SpecDeep == InitDeep /\ [][NextDeep]_vars

(***************************************************************************)
(* The dynamic map with a caller that passes a pointer it got from find    *)
(* back to put, for the same key: map_put(m, k, map_find(m, k)).  With     *)
(* val_free and val_dup configured map_put first calls val_free on the     *)
(* stored value, which is the argument, and then val_dup on the argument:   *)
(* int_dup reads *p from the block just freed, which is undefined.  The    *)
(* build either stops there (a checking allocator) or copies whatever the  *)
(* block holds by then: the old content or any other int, which 0 stands   *)
(* for.                                                                    *)
(***************************************************************************)
InitAlias == Init /\ strategy = "dynamic" /\ mp # NULL

\* What reading an int from a freed block can give.
StaleInts == Vals \cup {0}

PutFound ==
    /\ Dynamic
    /\ last.op = "find" /\ last.out # NullPtr
    /\ Bind(map_put(S, CallerPtr(last.key), last.out, AllocOk(TRUE)), LAMBDA r :
          IF m.val_free /\ m.val_dup
          THEN \/ /\ pc' = "crashed"
                  /\ last' = Ret("put", last.key, Deref(last.out), 0, NullPtr, NULL, r.s.calls)
                  /\ UNCHANGED <<mp, m, heap, live, net>>
               \/ /\ pc' = pc
                  /\ \E x \in StaleInts :
                        Returned("put", last.key, Deref(last.out),
                                 [r EXCEPT !.s.heap[find_node(S, CallerPtr(last.key))].value
                                             = MapPtr(x)], 1)
          ELSE /\ pc' = pc
               /\ Returned("put", last.key, Deref(last.out), r, 1))
    /\ UNCHANGED <<strategy, pm, caller>>

NextAlias ==
    \/ \E k \in Keys, v \in Vals, ok \in BOOLEAN : Insert(k, v, ok)
    \/ \E k \in Keys, v \in Vals, ok \in BOOLEAN : Put(k, v, ok)
    \/ \E k \in Keys : Erase(k)
    \/ \E k \in Keys : Find(k)
    \/ PutFound

SpecAlias == InitAlias /\ [][NextAlias]_vars

(***************************************************************************)
(* The tree as the claims speak of it, for whichever variant is running:   *)
(* the node records, the root, the size counter, and what is reachable     *)
(* from the root along left and right links.  Walks are cut off after      *)
(* MaxDepth links, more than any tree of the run has: the trees hold keys   *)
(* of Keys only, but for the pool that was filled before the run.          *)
(***************************************************************************)
MaxDepth == IF strategy # "dynamic" /\ pm.size > MaxKey THEN FullDepth ELSE MaxKey + 1

Tree == IF strategy = "dynamic" THEN heap ELSE pm.pool

Root == IF strategy = "dynamic" THEN m.root ELSE pm.root

SizeField == IF strategy = "dynamic" THEN m.size ELSE pm.size

\* Node a's key compares less than node b's key.
KeyLess(a, b) ==
    IF strategy = "dynamic" THEN cstr_cmp(heap[a].key, heap[b].key) < 0
    ELSE pm.pool[a].key < pm.pool[b].key

RECURSIVE ReachFrom(_, _, _)
ReachFrom(t, n, fuel) ==
    IF n = NULL \/ fuel = 0 THEN {}
    ELSE {n} \cup ReachFrom(t, t[n].left, fuel - 1) \cup ReachFrom(t, t[n].right, fuel - 1)

Reach == ReachFrom(Tree, Root, MaxDepth)

\* The height of the subtree at n: the number of nodes on its longest path down.
RECURSIVE Depth(_, _, _)
Depth(t, n, fuel) ==
    IF n = NULL \/ fuel = 0 THEN 0
    ELSE 1 + Max(Depth(t, t[n].left, fuel - 1), Depth(t, t[n].right, fuel - 1))

StoredHeight(t, n) == IF n # NULL THEN t[n].height ELSE 0

Rotations(calls) == {i \in DOMAIN calls : calls[i].fn \in {"rotate_left", "rotate_right"}}

\* C1: in both variants, whatever insert, put and erase calls have been made,
\* the heights of the left and the right subtree of every node reachable from
\* the root differ by at most 1 (an absent child has height 0).
C1_Balanced ==
    \A n \in Reach :
        Depth(Tree, Tree[n].left, MaxDepth) - Depth(Tree, Tree[n].right, MaxDepth)
            \in {-1, 0, 1}

\* An erase of the dynamic map that had to rotate to restore the balance.
C1_Witness ==
    /\ strategy = "dynamic"
    /\ last.op = "erase" /\ last.rc = 1
    /\ Rotations(last.calls) # {}
    /\ Cardinality(Reach) = 3

\* C2: at every reachable node all keys of the left subtree compare less than
\* the node's key and all keys of the right subtree compare greater; hence no
\* two reachable nodes hold equal keys.
C2_SearchTree ==
    /\ \A n \in Reach :
          /\ \A l \in ReachFrom(Tree, Tree[n].left, MaxDepth) : KeyLess(l, n)
          /\ \A r \in ReachFrom(Tree, Tree[n].right, MaxDepth) : KeyLess(n, r)
    /\ \A a, b \in Reach : a # b => KeyLess(a, b) \/ KeyLess(b, a)

\* An erase of a node with two children: the key erased lay in another block
\* than the one freed, which held the in-order successor.
C2_Witness ==
    /\ strategy = "dynamic"
    /\ last.op = "erase" /\ last.rc = 1
    /\ \E i \in DOMAIN last.calls :
          last.calls[i].fn = "free" /\ last.calls[i].arg.c # last.key
    /\ Cardinality(Reach) >= 2

\* C3: after every insert, put and erase the height stored in every reachable
\* node is 1 + the larger of the heights stored in its children (0 for an
\* absent child), and it is the height the subtree really has.
C3_Heights ==
    \A n \in Reach :
        /\ Tree[n].height = 1 + Max(StoredHeight(Tree, Tree[n].left),
                                    StoredHeight(Tree, Tree[n].right))
        /\ Tree[n].height = Depth(Tree, n, MaxDepth)

\* A pool insert that made a double rotation.
C3_Witness ==
    /\ strategy = "pool"
    /\ last.op = "insert" /\ last.rc = 1
    /\ Cardinality(Rotations(last.calls)) = 2

\* C4: the root has no parent; every other reachable node has a reachable
\* parent, and exactly one of the parent's left and right links is the node.
C4_Parents ==
    /\ Root # NULL => Tree[Root].parent = NULL
    /\ \A n \in Reach \ {Root} :
          /\ Tree[n].parent \in Reach
          /\ (Tree[Tree[n].parent].left = n) # (Tree[Tree[n].parent].right = n)

\* An insert or put of the dynamic map that rotated below the root: the node
\* the rotation was made at now hangs under the node that took its place,
\* and that node was linked back under the parent the subtree had.
C4_Witness ==
    /\ strategy = "dynamic"
    /\ last.op \in {"insert", "put"} /\ last.rc = 1
    /\ \E i \in Rotations(last.calls) :
          /\ Tree[last.calls[i].arg.c].parent \in Reach
          /\ Tree[Tree[last.calls[i].arg.c].parent].parent \in Reach

\* C5: the size counter is the number of nodes reachable from the root, and it
\* is the number of calls that returned Inserted minus the number that returned
\* Erased since the map was created or last cleared; a call that returns
\* AlreadyExists, Replaced, NotFound or Failed leaves it as it was.
C5_Counted == SizeField = Cardinality(Reach) /\ SizeField = net

C5_Size ==
    /\ []C5_Counted
    /\ [][(last'.op \in {"insert", "put", "erase"} /\ last'.rc \in {0, 2, -1})
             => SizeField' = SizeField]_vars

\* Three keys went in and one came out: an erase returned Erased and size is 2.
C5_Witness ==
    /\ last.op = "erase" /\ last.rc = 1
    /\ SizeField = 2 /\ net = 2

(***************************************************************************)
(* Iteration as a caller writes it: from begin (or from prev of end) the   *)
(* iterator is advanced until the end sentinel comes back.  Forward and    *)
(* Backward are the nodes visited, in order.  The loops of the code have   *)
(* no bound; a walk is cut off after MaxVisits cursors, one more than      *)
(* there are nodes to visit, which no walk of a well-formed tree reaches.  *)
(***************************************************************************)
MaxVisits == (IF strategy = "dynamic" THEN Cardinality(Addrs) ELSE MAX_NODES) + 1

BeginOf == IF strategy = "dynamic" THEN map_begin(S) ELSE pool_map_begin(pm)

EndOf == IF strategy = "dynamic" THEN map_end(S) ELSE NULL

NextOf(it) ==
    IF strategy = "dynamic" THEN map_next(heap, it) ELSE pool_map_next(pm.pool, it)

\* The element of a one-element set: what an expression evaluates to,
\* evaluated once.
The(single) == CHOOSE x \in single : TRUE

\* The cursors of the loop  for (it = begin; it != end; it = next(it))  from
\* the cursor it on, at most fuel of them: one cursor when fuel is 1, else the
\* cursors of the first half of the passes and, when the end did not come
\* back in these, the cursors of the passes that follow the last of them.
RECURSIVE WalkNext(_, _)
WalkNext(it, fuel) ==
    The({IF c = EndOf \/ f = 0 THEN <<>>
         ELSE IF f = 1 THEN <<c>>
         ELSE The({IF Len(a) < f \div 2 THEN a
                   ELSE a \o WalkNext(NextOf(a[Len(a)]), f - f \div 2) :
                     a \in {WalkNext(c, f \div 2)}}) :
           c \in {it}, f \in {fuel}})

Forward == WalkNext(BeginOf, MaxVisits)

RECURSIVE WalkPrev(_, _)
WalkPrev(it, fuel) ==
    IF it = NULL \/ fuel = 0 THEN <<>>
    ELSE <<it>> \o WalkPrev(map_prev(heap, it), fuel - 1)

Backward == WalkPrev(map_prev(heap, map_end(S)), MaxVisits)

Reverse(seq) == [i \in 1..Len(seq) |-> seq[Len(seq) + 1 - i]]

\* C6: in both variants, begin followed by next visits every stored node once,
\* in strictly increasing key order, and the end sentinel comes back after
\* exactly size steps; on an empty map begin is the end sentinel.
C6_ForwardIteration ==
    /\ Len(Forward) = SizeField
    /\ {Forward[i] : i \in DOMAIN Forward} = Reach
    /\ \A i \in 1..(Len(Forward) - 1) : KeyLess(Forward[i], Forward[i + 1])
    /\ SizeField = 0 => BeginOf = EndOf

\* A caller of the dynamic map with at least three keys has called next on the
\* last node and got the end sentinel.
C6_Witness ==
    /\ strategy = "dynamic"
    /\ SizeField >= 3
    /\ last.op = "next" /\ last.it = EndOf
    /\ Len(Forward) = SizeField

\* C7: backward iteration of the dynamic map, which starts at the end cursor
\* and applies prev until begin is reached, visits the stored nodes in
\* decreasing key order: the nodes of forward iteration, reversed.
C7_BackwardIteration ==
    strategy = "dynamic" => Backward = Reverse(Forward)

\* C8: every operation of the dynamic map called with a null handle returns
\* normally, with a neutral result and without effect: size 0, find NotFound
\* (a null pointer), insert and put Failed, erase NotFound, begin the end
\* sentinel, clear and destroy nothing.
C8_NullHandleSafe ==
    (strategy = "dynamic" /\ mp = NULL) =>
        /\ pc = "open"
        /\ live = {} /\ last.calls = <<>>
        /\ last.op = "size" => last.rc = 0
        /\ last.op = "find" => last.out = NullPtr
        /\ last.op \in {"insert", "put"} => last.rc = -1
        /\ last.op = "erase" => last.rc = 0
        /\ last.op = "begin" => last.it = NULL

\* The node allocation of the call whose log is calls failed: malloc returned
\* NULL.
MallocFailed(calls) == \E i \in DOMAIN calls : calls[i] = Call("malloc", NullPtr)

\* C9, as the claim states it: whenever key k is not in the map, insert(k, v)
\* returns Inserted and find(k) on the map it leaves returns v.
C9_AsStated ==
    [][/\ (/\ strategy = "dynamic" /\ mp # NULL
            /\ last'.op = "insert"
            /\ find_node(S, CallerPtr(last'.key)) = NULL)
           => /\ last'.rc = 1
              /\ map_find(S', CallerPtr(last'.key))
                     = (IF m.val_dup THEN MapPtr(last'.value) ELSE CallerPtr(last'.value))
       /\ (/\ strategy = "pool"
            /\ last'.op = "insert"
            /\ pool_find_node(pm, last'.key) = NULL)
           => /\ last'.rc = 1
              /\ pool_map_find(pm', last'.key) = last'.value]_vars

\* C9: when key k is not in the map, insert(k, v) returns Inserted unless the
\* node for k cannot be allocated (malloc returns NULL; every slot of the pool
\* is in use), and then it returns Failed and find(k) still finds nothing.
\* After Inserted, find(k) on the map the call leaves returns v: the caller's
\* pointer itself without a value-dup callback, the stored duplicate with the
\* content of v with one; in the pool variant the value itself.
C9_InsertFind ==
    [][/\ (/\ strategy = "dynamic" /\ mp # NULL
            /\ last'.op = "insert"
            /\ find_node(S, CallerPtr(last'.key)) = NULL)
           => IF MallocFailed(last'.calls)
              THEN /\ last'.rc = -1
                   /\ map_find(S', CallerPtr(last'.key)) = NullPtr
              ELSE /\ last'.rc = 1
                   /\ map_find(S', CallerPtr(last'.key))
                          = (IF m.val_dup THEN MapPtr(last'.value)
                             ELSE CallerPtr(last'.value))
       /\ (/\ strategy = "pool"
            /\ last'.op = "insert"
            /\ pool_find_node(pm, last'.key) = NULL)
           => IF \A i \in Slots : pm.pool[i].in_use # 0
              THEN /\ last'.rc = -1
                   /\ pool_map_find(pm', last'.key) = NULL
              ELSE /\ last'.rc = 1
                   /\ pool_map_find(pm', last'.key) = last'.value]_vars

\* An insert under the duplicating policy that rotated, after which find
\* returns the map's own copy of the value.
C9_Witness ==
    /\ strategy = "dynamic" /\ m.val_dup
    /\ last.op = "insert" /\ last.rc = 1
    /\ Rotations(last.calls) # {}
    /\ map_find(S, CallerPtr(last.key)) = MapPtr(last.value)

\* C10: insert(k, v) on a map that contains k returns AlreadyExists, leaves the
\* whole map as it was (every pair, every link and height, size), allocates
\* nothing and calls no callback.
C10_NoOverwrite ==
    [][/\ (/\ strategy = "dynamic"
            /\ last'.op = "insert"
            /\ find_node(S, CallerPtr(last'.key)) # NULL)
           => /\ last'.rc = 0
              /\ UNCHANGED <<mp, m, heap, live>>
              /\ last'.calls = <<>>
       /\ (/\ strategy = "pool"
            /\ last'.op = "insert"
            /\ pool_find_node(pm, last'.key) # NULL)
           => /\ last'.rc = 0
              /\ UNCHANGED pm
              /\ last'.calls = <<>>]_vars

\* An insert that offered another value for a stored key was turned down: the
\* value found under the key is still the old one.
C10_Witness ==
    /\ strategy = "dynamic"
    /\ last.op = "insert" /\ last.rc = 0
    /\ SizeField >= 2
    /\ map_find(S, CallerPtr(last.key)) # NullPtr
    /\ map_find(S, CallerPtr(last.key)).c # last.value

(***************************************************************************)
(* What is stored, read off the reachable nodes (not through find_node):   *)
(* the nodes holding a key with content k, and the key and value pointers  *)
(* the nodes store.                                                        *)
(***************************************************************************)
KeyContent(n) == IF strategy = "dynamic" THEN Deref(heap[n].key) ELSE pm.pool[n].key

Holders(k) == {n \in Reach : KeyContent(n) = k}

ValueAt(k) == Tree[CHOOSE n \in Holders(k) : TRUE].value

\* The entries of a call log made by fn, in order, and how many of them have
\* the argument arg.
CallsOf(calls, fn) == SelectSeq(calls, LAMBDA c : c.fn = fn)

CountOf(calls, fn, arg) == Cardinality({i \in DOMAIN calls : calls[i] = Call(fn, arg)})

\* C11: a put on a map that holds the key returns Replaced (2), and a find of
\* the key then returns the new value (in the dynamic variant the duplicate of
\* the value passed when a val_dup is configured, else the pointer passed).
\* When a val_free is configured that put releases the value stored before,
\* once, and no other; without val_free nothing is released.  No call ever
\* releases a value pointer that is not stored in a reachable node when the
\* call starts, nor one more often than it is stored: the value released by
\* the put is not released again by a later erase, clear or destroy.
C11_Replace ==
    [][/\ \A k \in Keys, v \in Vals :
             (/\ pc = "open" /\ last'.op = "put" /\ last'.key = k /\ last'.value = v
              /\ Holders(k) # {})
             => /\ last'.rc = 2
                /\ Cardinality(Holders(k)') = 1
                /\ strategy = "dynamic"
                     => /\ ValueAt(k)' = (IF m.val_dup THEN MapPtr(v) ELSE CallerPtr(v))
                        /\ map_find(S, CallerPtr(k))' = ValueAt(k)'
                        /\ CallsOf(last'.calls, "val_free")
                             = (IF m.val_free THEN <<Call("val_free", ValueAt(k))>>
                                ELSE <<>>)
                /\ strategy = "pool"
                     => /\ ValueAt(k)' = v
                        /\ pool_map_find(pm, k)' = v
       /\ \A i \in DOMAIN last'.calls :
             last'.calls[i].fn = "val_free"
                => CountOf(last'.calls, "val_free", last'.calls[i].arg)
                     <= Cardinality({n \in Reach : heap[n].value = last'.calls[i].arg})]_vars

\* A put that replaced a duplicated value by a value with another content, in
\* a map of at least two keys: the log shows the release of the old duplicate.
C11_Witness ==
    /\ strategy = "dynamic" /\ m.val_free /\ m.val_dup
    /\ last.op = "put" /\ last.rc = 2
    /\ \E i \in DOMAIN last.calls :
          /\ last.calls[i].fn = "val_free"
          /\ last.calls[i].arg = MapPtr(3 - last.value)
    /\ SizeField >= 2
    /\ map_find(S, CallerPtr(last.key)) = MapPtr(last.value)

\* The pairs stored: the key and the value of every reachable node.
Pairs == {<<Tree[n].key, Tree[n].value>> : n \in Reach}

\* C12: an erase of a key that a reachable node holds (a leaf, a node with one
\* child or a node with two children, the root or not) returns Erased (1);
\* afterwards no node holds the key and find does not find it, every other
\* pair is stored as before (the same key and value pointers), nothing else is
\* stored, the size is one less, and the tree is a balanced search tree with
\* correct heights and parent links.
C12_Erase ==
    [][\A k \in WalkKeys :
          (/\ pc = "open" /\ last'.op = "erase" /\ last'.key = k /\ Holders(k) # {})
          => /\ last'.rc = 1
             /\ Holders(k)' = {}
             /\ strategy = "dynamic" => map_find(S, CallerPtr(k))' = NullPtr
             /\ strategy = "pool" => pool_find_node(pm, k)' = NULL
             /\ Pairs' = {p \in Pairs : p[1] # Tree[CHOOSE n \in Holders(k) : TRUE].key}
             /\ Cardinality(Pairs') = Cardinality(Pairs) - 1
             /\ Cardinality(Reach') = Cardinality(Reach) - 1
             /\ SizeField' = SizeField - 1
             /\ C1_Balanced' /\ C2_SearchTree' /\ C3_Heights' /\ C4_Parents']_vars

\* An erase from a five-node tree of a key whose node had two children and
\* was not the root: the block freed is the successor's, the key and value
\* released are the erased pair's, which the swap moved there, and the node,
\* now holding the successor's key (the key its block is numbered by from
\* then on), is still linked below the root.
C12_Witness ==
    /\ strategy = "dynamic" /\ m.key_free
    /\ last.op = "erase" /\ last.rc = 1
    /\ SizeField = MaxKey
    /\ last.calls[1] = Call("key_free", MapPtr(last.key))
    /\ \E i \in DOMAIN last.calls :
          /\ last.calls[i].fn = "free" /\ last.calls[i].arg.c # last.key
          /\ last.calls[i].arg.c \in Reach \ {Root}
          /\ Deref(heap[last.calls[i].arg.c].key) > last.key

\* C13: an erase of a key that no reachable node holds (the map is empty, the
\* key was never stored, or it has been erased before) returns NotFound (0)
\* and changes nothing: the handle, the map's fields, every node, the set of
\* live blocks and the pool are as before, and no callback, malloc or free is
\* called.
C13_EraseAbsent ==
    [][\A k \in Keys :
          (/\ pc = "open" /\ last'.op = "erase" /\ last'.key = k /\ Holders(k) = {})
          => /\ last'.rc = 0
             /\ last'.calls = <<>>
             /\ UNCHANGED <<mp, m, heap, live, pm, net>>]_vars

\* An erase that found nothing in a map of two or more keys.
C13_Witness ==
    /\ last.op = "erase" /\ last.rc = 0
    /\ Holders(last.key) = {}
    /\ SizeField >= 2 /\ Cardinality(Reach) = SizeField

\* C14: the pool holds MAX_NODES keys.  An insert of a key that is not stored
\* returns Inserted (1) and raises the size by one while fewer than MAX_NODES
\* keys are stored, so the first MAX_NODES distinct keys inserted into the
\* empty map are all inserted; with MAX_NODES keys stored it returns Failed
\* (-1) and the map (root, every slot with its links, height, key, value and
\* in_use flag, and the size) is exactly as before.
C14_PoolExhausted ==
    [][\A k \in Keys :
          (/\ strategy = "pool" /\ pc = "open"
           /\ last'.op = "insert" /\ last'.key = k /\ Holders(k) = {})
          => IF SizeField < MAX_NODES
             THEN /\ last'.rc = 1
                  /\ SizeField' = SizeField + 1
                  /\ Cardinality(Holders(k)') = 1
             ELSE /\ last'.rc = -1
                  /\ SizeField = MAX_NODES
                  /\ UNCHANGED pm
                  /\ last'.calls = <<>>]_vars

\* The insert of one more distinct key into a full pool has failed.
C14_Witness ==
    /\ strategy = "pool"
    /\ last.op = "insert" /\ last.rc = -1
    /\ Holders(last.key) = {}
    /\ SizeField = MAX_NODES /\ net = MAX_NODES
    /\ \A i \in Slots : pm.pool[i].in_use = 1

\* The call log records that malloc returned NULL for the node.
NodeAllocFailed(calls) == \E i \in DOMAIN calls : calls[i] = Call("malloc", NullPtr)

\* C15: in the dynamic variant an insert or put of a key that is not stored,
\* on an empty or non-empty map, either allocates its node or, when malloc
\* returns NULL, returns Failed (-1) with the map unchanged (handle, fields,
\* every node, live blocks) and without having called key_dup or val_dup (or
\* anything else: the failed malloc is the only call made).
C15_AllocFailure ==
    [][\A k \in Keys :
          (/\ strategy = "dynamic" /\ pc = "open" /\ mp # NULL
           /\ last'.op \in {"insert", "put"} /\ last'.key = k /\ Holders(k) = {})
          => /\ last'.rc \in {1, -1}
             /\ (last'.rc = -1) = NodeAllocFailed(last'.calls)
             /\ NodeAllocFailed(last'.calls)
                  => /\ last'.calls = <<Call("malloc", NullPtr)>>
                     /\ UNCHANGED <<mp, m, heap, live, net>>]_vars

\* A put of a new key into a non-empty map with duplicating callbacks failed
\* on the node's malloc.
C15_Witness ==
    /\ strategy = "dynamic" /\ m.key_dup /\ m.val_dup
    /\ last.op = "put" /\ last.rc = -1
    /\ last.calls = <<Call("malloc", NullPtr)>>
    /\ Holders(last.key) = {}
    /\ SizeField >= 1

\* The call log records a dup callback that returned NULL.
DupFailure(calls) == \E i \in DOMAIN calls : calls[i].fn = "dup_failed"

\* C16: when key_dup or val_dup returns NULL (its allocation failed) during
\* an insert or put, the call returns Failed (-1) and leaves the map
\* unchanged: no node is linked, the size is as before, and on a put of a
\* stored key the previous value is still stored and has not been released.
C16_DupFailureAtomic ==
    [][(last'.op \in {"insert", "put"} /\ DupFailure(last'.calls))
          => /\ last'.rc = -1
             /\ UNCHANGED <<mp, m, heap, live>>
             /\ CallsOf(last'.calls, "val_free") = <<>>]_vars

\* What the caller reads in a forward iteration: the contents of the key and
\* of the value under each cursor.
RECURSIVE ContentsFrom(_, _, _, _)
ContentsFrom(h, cl, it, fuel) ==
    IF it = NULL \/ fuel = 0 THEN <<>>
    ELSE <<<<DerefIn(cl, map_iter_key(h, it)), DerefIn(cl, map_iter_value(h, it))>>>>
         \o ContentsFrom(h, cl, map_next(h, it), fuel - 1)

Contents == ContentsFrom(heap, caller, map_begin(S), MaxVisits)

\* What the caller reads through map_find(m, k): 0 stands for not found.
Found(k) == IF map_find(S, CallerPtr(k)) = NullPtr THEN 0
            ELSE Deref(map_find(S, CallerPtr(k)))

\* With both dup callbacks configured every key and value stored in a
\* reachable node is an object of the map: none is the caller's variable or
\* buffer, nor any other object of the caller.
StoredAreCopies ==
    (m.key_dup /\ m.val_dup)
        => \A n \in Reach : heap[n].key.own = "map" /\ heap[n].value.own = "map"

\* C17: with key_dup and val_dup configured, after every step the keys and
\* values stored are objects of the map, distinct from the objects the
\* caller passed; and when the caller then writes its variable or its buffer
\* (as main does with v between its inserts), what map_find returns for every
\* key and what a forward iteration yields stay as they were.
C17_Isolation ==
    [][/\ StoredAreCopies'
       /\ (m.key_dup /\ m.val_dup /\ caller' # caller)
            => /\ \A k \in Keys : Found(k)' = Found(k)
               /\ ContentsFrom(heap', caller', map_begin(S'), MaxVisits) = Contents]_vars

\* Two keys were inserted from the same buffer and variable, with different
\* values; the caller has since overwritten both, and the key inserted last
\* is still found with the value it was inserted with.
C17_Witness ==
    /\ m.key_dup /\ m.val_dup
    /\ last.op = "insert" /\ last.rc = 1
    /\ SizeField >= 2
    /\ Cardinality({Deref(heap[n].value) : n \in Reach}) = 2
    /\ last.value # caller.v /\ last.key # caller.kbuf
    /\ Found(last.key) = last.value

(***************************************************************************)
(* The duplicates the map owns.  A duplicate is told by its kind (key or   *)
(* value) and its content; a count per duplicate says how many are alive.  *)
(* Replaying a call log on the counts adds one for every dup call that     *)
(* returned a duplicate and takes one off for every free call; a free call *)
(* on something that is not a live duplicate makes the replay fail (on     *)
(* NULL, cstr_free and int_free do nothing).                               *)
(***************************************************************************)
Dups == {[kind |-> kd, c |-> c] : kd \in {"key", "val"}, c \in Keys \cup Vals}

\* How many nodes of heap h reachable from root store each duplicate.
StoredDupsIn(h, root) ==
    [d \in Dups |->
        Cardinality({n \in ReachFrom(h, root, MaxDepth) :
                        IF d.kind = "key" THEN h[n].key = MapPtr(d.c)
                        ELSE h[n].value = MapPtr(d.c)})]

StoredDups == StoredDupsIn(heap, m.root)

RECURSIVE Replay(_, _, _)
Replay(b, calls, i) ==
    IF i > Len(calls) THEN [b |-> b, ok |-> TRUE]
    ELSE IF calls[i].fn \in {"key_dup", "val_dup"}
    THEN IF i < Len(calls) /\ calls[i + 1].fn = "dup_failed"
         THEN Replay(b, calls, i + 2)
         ELSE Replay([b EXCEPT ![[kind |-> IF calls[i].fn = "key_dup" THEN "key" ELSE "val",
                                  c |-> Deref(calls[i].arg)]] = @ + 1], calls, i + 1)
    ELSE IF calls[i].fn \in {"key_free", "val_free"} /\ calls[i].arg # NullPtr
    THEN IF calls[i].arg.own = "map"
            /\ b[[kind |-> IF calls[i].fn = "key_free" THEN "key" ELSE "val",
                   c |-> calls[i].arg.c]] > 0
         THEN Replay([b EXCEPT ![[kind |-> IF calls[i].fn = "key_free" THEN "key" ELSE "val",
                                  c |-> calls[i].arg.c]] = @ - 1], calls, i + 1)
         ELSE [b |-> b, ok |-> FALSE]
    ELSE Replay(b, calls, i + 1)

Releases(calls) == {i \in DOMAIN calls : calls[i].fn \in {"key_free", "val_free"}}

\* C18: in the dynamic variant with a dup and free callback for keys and for
\* values, every call keeps the books: starting from the duplicates stored in
\* reachable nodes before the call, adding the duplicates its dup calls made
\* and taking off the ones its free calls released (each a live duplicate at
\* that moment, released through the callback of its kind) gives exactly the
\* duplicates stored in reachable nodes after the call.  So between calls the
\* live duplicates are the stored ones and each is released once, by the
\* call that drops it, which is an erase, a replacing put, a clear or a
\* destroy.  With no free callback configured no call releases a key or a
\* value.
C18_Accounting ==
    [][strategy = "dynamic"
         => /\ (m.key_dup /\ m.key_free /\ m.val_dup /\ m.val_free)
                => /\ Replay(StoredDups, last'.calls, 1)
                        = [b |-> StoredDupsIn(heap', m'.root), ok |-> TRUE]
                   /\ Releases(last'.calls) # {}
                        => last'.op \in {"erase", "put", "clear", "destroy"}
            /\ (~m.key_free /\ ~m.val_free) => Releases(last'.calls) = {}]_vars

\* A destroy of a map of three keys with duplicating callbacks: three keys
\* and three values were released, and nothing is stored.
C18_Witness ==
    /\ strategy = "dynamic" /\ pc = "destroyed"
    /\ m.key_free /\ m.val_free
    /\ last.op = "destroy"
    /\ Len(CallsOf(last.calls, "key_free")) = 3
    /\ Len(CallsOf(last.calls, "val_free")) = 3
    /\ \A d \in Dups : StoredDups[d] = 0

\* The callback policy of the map as it is now.
PolicyOf(mm) == [key_dup |-> mm.key_dup, key_free |-> mm.key_free,
                 val_dup |-> mm.val_dup, val_free |-> mm.val_free]

\* C19: a clear of the dynamic map, whatever it holds, releases the block of
\* every reachable node once, and with key_free / val_free configured every
\* stored key / value once, and nothing else; afterwards the root is absent,
\* the size is 0 and the whole memory of the map equals that of a map just
\* created with the same callbacks, so every following call behaves as on a
\* fresh map.  A destroy makes the same calls and then frees the map itself
\* as its last call.  With a null handle neither does anything.
C19_Clear ==
    [][(/\ strategy = "dynamic" /\ pc = "open" /\ last'.op \in {"clear", "destroy"})
          => IF mp = NULL
             THEN last'.calls = <<>> /\ UNCHANGED <<mp, m, heap, live, pc>>
             ELSE /\ \A n \in Reach :
                        /\ CountOf(last'.calls, "free", NodePtr(n)) = 1
                        /\ m.key_free
                             => CountOf(last'.calls, "key_free", heap[n].key)
                                  = Cardinality({a \in Reach : heap[a].key = heap[n].key})
                        /\ m.val_free
                             => CountOf(last'.calls, "val_free", heap[n].value)
                                  = Cardinality({a \in Reach : heap[a].value = heap[n].value})
                  /\ Len(CallsOf(last'.calls, "key_free"))
                       = (IF m.key_free THEN Cardinality(Reach) ELSE 0)
                  /\ Len(CallsOf(last'.calls, "val_free"))
                       = (IF m.val_free THEN Cardinality(Reach) ELSE 0)
                  /\ Len(last'.calls)
                       = Cardinality(Reach) + Len(CallsOf(last'.calls, "key_free"))
                         + Len(CallsOf(last'.calls, "val_free"))
                         + (IF last'.op = "destroy" THEN 1 ELSE 0)
                  /\ last'.op = "destroy"
                       => /\ last'.calls[Len(last'.calls)] = Call("free", HandlePtr(mp))
                          /\ pc' = "destroyed"
                  /\ last'.op = "clear" => pc' = "open"
                  /\ m'.root = NULL /\ m'.size = 0
                  /\ mp' = map_create(TRUE, PolicyOf(m), TRUE).mp
                  /\ m' = map_create(TRUE, PolicyOf(m), TRUE).m
                  /\ heap' = [a \in Addrs |-> FreeBlock]
                  /\ live' = {}]_vars

\* A clear of a map of four keys with duplicating callbacks: four blocks,
\* four keys and four values were released, and the map is empty and open.
C19_Witness ==
    /\ strategy = "dynamic" /\ pc = "open" /\ mp # NULL
    /\ m.key_free /\ m.val_free
    /\ last.op = "clear"
    /\ Len(CallsOf(last.calls, "free")) = MaxKey
    /\ Len(last.calls) = 3 * MaxKey
    /\ m.root = NULL /\ m.size = 0 /\ live = {}

\* C20: the example run.  Its calls return Inserted, Inserted, Inserted (the
\* put of banana), Replaced (the put of apple), Erased.  After the
\* put of banana the size is 3 and apple is found with 42, also once v has
\* been set to 100; after the put of apple, apple is found with 100 and the
\* forward iteration yields (apple, 100), (banana, 13), (orange, 7); after
\* the erase of orange the size is 2 and the iteration yields (apple, 100),
\* (banana, 13); an erase of orange called once more after that returns
\* NotFound (0) and leaves the size at 2.  What map_size and map_find return
\* when called at these points is the same.
C20_Scenario ==
    /\ \A i \in DOMAIN caller.rcs : caller.rcs[i] = <<1, 1, 1, 2, 1>>[i]
    /\ (pc = "open" /\ caller.step \in {6, 7})
         => /\ map_size(S) = 3
            /\ Found(1) = 42
            /\ Contents = << <<1, 42>>, <<2, 13>>, <<3, 7>> >>
    /\ (pc = "open" /\ caller.step = 8)
         => /\ map_size(S) = 3
            /\ Found(1) = 100
            /\ Contents = << <<1, 100>>, <<2, 13>>, <<3, 7>> >>
    /\ (pc = "open" /\ caller.step = 9)
         => /\ map_size(S) = 2
            /\ Found(3) = 0
            /\ Contents = << <<1, 100>>, <<2, 13>> >>
            /\ Len(caller.rcs) = 5
    /\ "again" \in DOMAIN last
         => /\ last.op = "erase" /\ last.key = 3
            /\ last.rc = 0 /\ last.calls = <<>>
            /\ map_size(S) = 2
    /\ last.op = "size" => last.rc = map_size(S)
    /\ (last.op = "find" /\ last.out # NullPtr) => Deref(last.out) = Found(last.key)
    /\ (last.op = "find" /\ last.out = NullPtr) => Found(last.key) = 0

\* Main's statements are done and orange has been erased once more.
C20_Witness ==
    /\ caller.step = Len(Script)
    /\ caller.rcs = <<1, 1, 1, 2, 1>>
    /\ "again" \in DOMAIN last
    /\ last.op = "erase" /\ last.rc = 0
    /\ map_size(S) = 2

(***************************************************************************)
(* The tree of each variant as a value: the empty tuple for no node, else  *)
(* the node's key, its stored height, and the trees under its left and its *)
(* right link.                                                             *)
(***************************************************************************)
RECURSIVE ShapeFrom(_, _, _, _)
ShapeFrom(h, cl, n, fuel) ==
    IF n = NULL \/ fuel = 0 THEN <<>>
    ELSE <<DerefIn(cl, h[n].key), h[n].height,
           ShapeFrom(h, cl, h[n].left, fuel - 1), ShapeFrom(h, cl, h[n].right, fuel - 1)>>

RECURSIVE PoolShapeFrom(_, _, _)
PoolShapeFrom(pl, n, fuel) ==
    IF n = NULL \/ fuel = 0 THEN <<>>
    ELSE <<pl[n].key, pl[n].height,
           PoolShapeFrom(pl, pl[n].left, fuel - 1), PoolShapeFrom(pl, pl[n].right, fuel - 1)>>

\* What find returned: the content of the value found, 0 for NULL.
FoundContent(out) == IF out = NullPtr THEN 0 ELSE Deref(out)

\* C21: given the same insert, put, find and erase calls, none of which needs
\* more nodes than the pool has, the dynamic and the pool variant return the same
\* result code from every call (from find: the same value, or both nothing), and
\* after every call their trees have the same key and the same height at every
\* position, and their sizes are equal.
C21_SameAlgorithm ==
    strategy = "lockstep"
      => /\ last.rc = last.pool.rc
         /\ FoundContent(last.out) = last.pool.out
         /\ ShapeFrom(heap, caller, m.root, MaxDepth) = PoolShapeFrom(pm.pool, pm.root, MaxDepth)
         /\ m.size = pm.size

\* Both variants have erased a key from a tree of four and rotated to restore the
\* balance.
C21_Witness ==
    /\ strategy = "lockstep"
    /\ last.op = "erase" /\ last.rc = 1 /\ last.pool.rc = 1
    /\ Rotations(last.calls) # {} /\ Rotations(last.pool.calls) # {}
    /\ m.size = 3 /\ pm.size = 3

(***************************************************************************)
(* A pass of the rebalancing loop, seen from outside: the node it is at,   *)
(* the heights of the subtrees under it as they really are when the pass   *)
(* begins, and the rotations the pass adds to the call log.                *)
(***************************************************************************)
WalkPass == strategy = "dynamic" /\ pc = "walk" /\ last.p # NULL

TrueHeight(h, n) == Depth(h, n, MaxDepth)

\* height(left) - height(right) at n.
BalanceFactor(h, n) == TrueHeight(h, h[n].left) - TrueHeight(h, h[n].right)

\* The grandchildren of n on the side of its child c: the outer one (left.left,
\* right.right) is at least as high as the inner one, or exactly as high.
OuterNotLower(h, n, c) ==
    IF c = h[n].left THEN TrueHeight(h, h[c].left) >= TrueHeight(h, h[c].right)
    ELSE TrueHeight(h, h[c].right) >= TrueHeight(h, h[c].left)

GrandchildrenTie(h, n) ==
    \/ BalanceFactor(h, n) = 2
          /\ TrueHeight(h, h[h[n].left].left) = TrueHeight(h, h[h[n].left].right)
    \/ BalanceFactor(h, n) = -2
          /\ TrueHeight(h, h[h[n].right].right) = TrueHeight(h, h[h[n].right].left)

\* The rotations the rule of the claim asks for at n, as <<name, node>> pairs.
RotationCase(h, n) ==
    IF BalanceFactor(h, n) = 2
    THEN IF OuterNotLower(h, n, h[n].left) THEN << <<"rotate_right", n>> >>
         ELSE << <<"rotate_left", h[n].left>>, <<"rotate_right", n>> >>
    ELSE IF BalanceFactor(h, n) = -2
    THEN IF OuterNotLower(h, n, h[n].right) THEN << <<"rotate_left", n>> >>
         ELSE << <<"rotate_right", h[n].right>>, <<"rotate_left", n>> >>
    ELSE <<>>

\* The rotations among the entries of the log cs after the first n.
RotationsAfter(cs, n) ==
    [i \in 1..(Len(cs) - n) |-> <<cs[n + i].fn, cs[n + i].arg.c>>]

BalancedFrom(h, n) ==
    \A x \in ReachFrom(h, n, MaxDepth) : BalanceFactor(h, x) \in {-1, 0, 1}

\* What the call that is inside its loop returns when it is run as one piece
\* from the memory it was made in.
CallOf(l) ==
    IF l.op = "insert"
    THEN map_insert(l.before, CallerPtr(l.key), CallerPtr(l.value), AllocOk(TRUE))
    ELSE Renumbered(map_erase(l.before, CallerPtr(l.key)))

\* The passes are the passes of the call: when the loop has ended, the memory,
\* the return code and the call log are those of map_insert or map_erase.
WalkEndsAsTheCall ==
    (strategy = "dynamic" /\ pc = "walk" /\ last.p = NULL)
      => /\ [mp |-> mp', m |-> m', heap |-> heap', live |-> live', calls |-> last.calls]
              = CallOf(last).s
         /\ last.rc = CallOf(last).rc

\* C22: a pass of the rebalancing loop at a node with balance factor +2 makes a
\* single right rotation at the node exactly when height(left.left) >=
\* height(left.right), and otherwise a left rotation at the left child followed
\* by a right rotation at the node; at balance factor -2 the same mirrored; at
\* any other node it does not rotate.  Equal grandchild heights are met only in
\* an erase; the single rotation is then made, and the subtree under the node
\* that the rotation has put on top is balanced at every node.
C22_RotationCase ==
    [][/\ WalkEndsAsTheCall
       /\ WalkPass
            => /\ RotationsAfter(last'.calls, Len(last.calls)) = RotationCase(heap, last.p)
               /\ GrandchildrenTie(heap, last.p)
                    => /\ last.op = "erase"
                       /\ Len(last'.calls) = Len(last.calls) + 1
                       /\ BalancedFrom(heap', IF BalanceFactor(heap, last.p) = 2
                                             THEN heap[last.p].left
                                             ELSE heap[last.p].right)]_vars

\* An erase is inside its loop and the pass just made was a single right
\* rotation at a node y whose left child x had two equally high subtrees: x is
\* now above y, and x's left subtree is as high as the subtree that went over to
\* y.
C22_Witness ==
    /\ strategy = "dynamic" /\ pc = "walk" /\ last.op = "erase"
    /\ Len(last.calls) >= 2
    /\ last.calls[Len(last.calls)].fn = "rotate_right"
    /\ last.calls[Len(last.calls) - 1].fn # "rotate_left"
    /\ Bind(last.calls[Len(last.calls)].arg.c, LAMBDA y :
          /\ heap[y].parent # NULL
          /\ heap[heap[y].parent].right = y
          /\ last.p = heap[heap[y].parent].parent
          /\ TrueHeight(heap, heap[heap[y].parent].left) = TrueHeight(heap, heap[y].left)
          /\ TrueHeight(heap, heap[y].left) >= 1)

\* C23: an erase of a key k held by a node n with two children, seen when
\* erase_node has returned and before the rebalancing loop.  The in-order
\* successor of k is the least key of n's right subtree, and the node suc holding
\* it has no left child, so the nested erase_node call on it unlinks it without
\* a further swap.  The block freed is suc's and no other; the key and the
\* value released (when the free callbacks are configured) are the ones stored
\* under k, no dup callback and no other free is called; n now stores the key
\* and the value pointer suc stored, and every other node stores what it did.
C23_TwoChildErase ==
    [][\A k \in WalkKeys, n \in Addrs :
          (/\ strategy = "dynamic" /\ pc = "open" /\ last'.op = "erase" /\ last'.key = k
           /\ n \in Reach /\ Deref(heap[n].key) = k
           /\ heap[n].left # NULL /\ heap[n].right # NULL)
          => \E suc \in ReachFrom(heap, heap[n].right, MaxDepth) :
                /\ \A x \in ReachFrom(heap, heap[n].right, MaxDepth) \ {suc} :
                      cstr_cmp(heap[suc].key, heap[x].key) < 0
                /\ \A x \in Reach :
                      cstr_cmp(heap[x].key, heap[n].key) > 0
                        => cstr_cmp(heap[suc].key, heap[x].key) <= 0
                /\ heap[suc].left = NULL
                /\ last'.rc = 1
                /\ last'.calls
                     = (IF m.key_free THEN <<Call("key_free", heap[n].key)>> ELSE <<>>)
                       \o (IF m.val_free THEN <<Call("val_free", heap[n].value)>> ELSE <<>>)
                       \o <<Call("free", NodePtr(suc))>>
                /\ live' = live \ {suc}
                /\ n \in ReachFrom(heap', m'.root, MaxDepth)
                /\ heap'[n].key = heap[suc].key
                /\ heap'[n].value = heap[suc].value
                /\ \A x \in live' \ {n} :
                      heap'[x].key = heap[x].key /\ heap'[x].value = heap[x].value]_vars

\* erase_node has returned from erasing a key whose node was not the root,
\* had two children, and held another value than its successor: the block freed
\* is not the node's, the node is still linked and now holds the successor's
\* key.
C23_Witness ==
    /\ strategy = "dynamic" /\ pc = "walk" /\ last.op = "erase" /\ last.rc = 1
    /\ m.key_free /\ m.val_free
    /\ \E n \in last.before.live :
          /\ DerefIn(caller, last.before.heap[n].key) = last.key
          /\ n # last.before.m.root
          /\ last.before.heap[n].left # NULL /\ last.before.heap[n].right # NULL
          /\ n \in live
          /\ last.calls[Len(last.calls)].fn = "free"
          /\ last.calls[Len(last.calls)].arg # NodePtr(n)
          /\ heap[n].key = last.before.heap[last.calls[Len(last.calls)].arg.c].key
          /\ heap[n].value # last.before.heap[n].value

\* C24: a put of a key that a reachable node n holds changes the value field of
\* n and nothing else.  In the dynamic variant the handle, the root, the size,
\* the callbacks, the set of live blocks and every block are as before but for
\* n's value: all left, right and parent links, all heights and all keys, among
\* them n's key pointer; the call log holds val_free and val_dup entries only: no
\* key_dup, no key_free, no malloc, no free and no rotation.  In the pool
\* variant root, size and every slot are as before but for n's value.
C24_PutFrame ==
    [][\A k \in Keys :
          (pc = "open" /\ last'.op = "put" /\ last'.key = k)
          => \A n \in Holders(k) :
             /\ last'.rc = 2
             /\ strategy = "dynamic"
                  => /\ mp' = mp /\ m' = m /\ live' = live
                     /\ heap' = [heap EXCEPT ![n].value = heap'[n].value]
                     /\ heap'[n].key = heap[n].key
                     /\ \A i \in DOMAIN last'.calls :
                           last'.calls[i].fn \in {"val_free", "val_dup"}
             /\ strategy = "pool"
                  => /\ pm' = [pm EXCEPT !.pool[n].value = pm'.pool[n].value]
                     /\ last'.calls = <<>>]_vars

\* A put has replaced the value of a node of the dynamic map that is not the
\* root and has a child, releasing the old value and copying the new one.
C24_Witness ==
    /\ strategy = "dynamic" /\ pc = "open"
    /\ last.op = "put" /\ last.rc = 2
    /\ Len(last.calls) = 2
    /\ \E n \in Holders(last.key) :
          /\ n # Root
          /\ heap[n].left # NULL \/ heap[n].right # NULL
          /\ heap[n].value = MapPtr(last.value)

\* C25: a put of a key that a reachable node of the dynamic map holds calls
\* val_free on the value stored (when val_free is configured) and then val_dup
\* on the value passed (when val_dup is configured), in this order and nothing
\* else; the value passed is the caller's own object or the very pointer the
\* node stores (the caller passes what find returned), and in the second case
\* val_dup is called on the pointer val_free has just been called on.
C25_FreeBeforeDup ==
    [][\A k \in Keys :
          (/\ strategy = "dynamic" /\ pc = "open" /\ last'.op = "put" /\ last'.key = k
           /\ Holders(k) # {})
          => \E arg \in {CallerPtr(last'.value), ValueAt(k)} :
                /\ last'.calls
                     = (IF m.val_free THEN <<Call("val_free", ValueAt(k))>> ELSE <<>>)
                       \o (IF m.val_dup THEN <<Call("val_dup", arg)>> ELSE <<>>)
                /\ (last.op = "find" /\ last.key = k /\ m.val_dup /\ arg.own = "map")
                     => arg = last.out /\ arg = ValueAt(k)]_vars

\* The caller has passed the pointer find returned to put for the same key:
\* val_free and then val_dup were called on that one pointer.
C25_Witness ==
    /\ strategy = "dynamic" /\ last.op = "put"
    /\ Len(last.calls) = 2
    /\ last.calls[1].fn = "val_free" /\ last.calls[2].fn = "val_dup"
    /\ last.calls[1].arg = last.calls[2].arg
    /\ last.calls[1].arg.own = "map"

\* C26: no call passes to val_dup or to val_free a value of the map that it has
\* already released: for every entry of a call log that passes a value of the
\* map to val_dup or val_free, the val_free entries before it with the same
\* pointer are fewer than the reachable nodes that stored the pointer when the
\* call was made.
C26_NoUseAfterRelease ==
    [][\A j \in DOMAIN last'.calls :
          (/\ strategy = "dynamic"
           /\ last'.calls[j].fn \in {"val_dup", "val_free"}
           /\ last'.calls[j].arg.own = "map")
          => Cardinality({i \in 1..(j - 1) : last'.calls[i] = Call("val_free", last'.calls[j].arg)})
               < Cardinality({n \in Reach : heap[n].value = last'.calls[j].arg})]_vars

(***************************************************************************)
(* The map as a function: what the reachable nodes of a tree store, as the *)
(* function from keys to the content of the value stored under the key, 0  *)
(* for a key that no reachable node holds; and the mathematical map a call *)
(* makes of such a function.                                               *)
(***************************************************************************)
HoldersIn(str, h, cl, root, pl, k) ==
    IF str = "pool" THEN {n \in ReachFrom(pl, root, MaxDepth) : pl[n].key = k}
    ELSE {n \in ReachFrom(h, root, MaxDepth) : DerefIn(cl, h[n].key) = k}

StoredUnder(str, h, cl, pl, n) ==
    IF str = "pool" THEN pl[n].value ELSE DerefIn(cl, h[n].value)

AbstractOf(str, h, cl, root, pl) ==
    [k \in Keys |->
       IF HoldersIn(str, h, cl, root, pl, k) = {} THEN 0
       ELSE StoredUnder(str, h, cl, pl, CHOOSE n \in HoldersIn(str, h, cl, root, pl, k) : TRUE)]

Abstract == AbstractOf(strategy, heap, caller, Root, pm.pool)

EmptyMap == [k \in Keys |-> 0]

\* insert adds only if absent, put adds or overwrites, erase removes, clear
\* and destroy empty; a call that returned Failed (-1) and any other call leave
\* the map as it is.
Apply(f, op, k, v, rc) ==
    IF rc = -1 THEN f
    ELSE IF op = "insert" THEN (IF f[k] = 0 THEN [f EXCEPT ![k] = v] ELSE f)
    ELSE IF op = "put" THEN [f EXCEPT ![k] = v]
    ELSE IF op = "erase" THEN [f EXCEPT ![k] = 0]
    ELSE IF op \in {"clear", "destroy"} THEN EmptyMap
    ELSE f

\* C27: the pairs reachable from the root are the mathematical map of the calls
\* made.  The map is empty after creation; every call takes the function
\* stored to the function the same call makes of it as a mathematical map; no
\* key is held by two reachable nodes; and a find of k on a map with a handle
\* returns the function's value at k, and nothing (NULL) for a key outside its
\* domain.
C27_AbstractMap ==
    [][/\ last.op = "create" => Abstract = EmptyMap
       /\ pc = "open"
            => /\ AbstractOf(strategy, heap', caller', Root', pm'.pool)
                    = Apply(Abstract, last'.op, last'.key, last'.value, last'.rc)
               /\ \A k \in Keys :
                     Cardinality(HoldersIn(strategy, heap', caller', Root', pm'.pool, k)) <= 1
       /\ (pc' = "open" /\ last'.op = "find" /\ (strategy = "dynamic" => mp # NULL))
            => Abstract[last'.key]
                 = (IF strategy = "pool" THEN last'.rc ELSE FoundContent(last'.out))]_vars

\* C28: the loop of one insert rotates at no more than one node.  A pass that
\* follows a pass that rotated adds no rotation; the pass that rotates at a node
\* leaves at the node's position a subtree as high as the one that stood there
\* before the insert (by its links and by its height field); and every pass at
\* a node above finds and leaves the node with the height and the balance
\* factor it had before the insert.  The passes are those of map_insert.
C28_OneRotationPerInsert ==
    [][/\ WalkEndsAsTheCall
       /\ (WalkPass /\ last.op = "insert")
            => /\ Rotations(last.calls) # {} => last'.calls = last.calls
               /\ Cardinality(Rotations(last'.calls)) <= 2
               /\ last'.calls # last.calls
                    => /\ RotationsAfter(last'.calls, Len(last.calls))
                            = RotationCase(heap, last.p)
                       /\ heap'[last.p].parent # NULL
                       /\ last'.p = heap'[heap'[last.p].parent].parent
                       /\ TrueHeight(heap', heap'[last.p].parent)
                            = TrueHeight(last.before.heap, last.p)
                       /\ heap'[heap'[last.p].parent].height
                            = last.before.heap[last.p].height
               /\ Rotations(last.calls) # {}
                    => /\ heap'[last.p].height = last.before.heap[last.p].height
                       /\ TrueHeight(heap', last.p) = TrueHeight(last.before.heap, last.p)
                       /\ BalanceFactor(heap', last.p)
                            = BalanceFactor(last.before.heap, last.p)
                       /\ BalanceFactor(heap, last.p)
                            = BalanceFactor(last.before.heap, last.p)]_vars

\* The loop of an insert has ended; it made a double rotation at a node that
\* was not the root, and then passed the root without rotating: the subtree put
\* in the node's place hangs under the root.
C28_Witness ==
    /\ strategy = "dynamic" /\ pc = "walk" /\ last.op = "insert" /\ last.p = NULL
    /\ Cardinality(Rotations(last.calls)) = 2
    /\ Bind(last.calls[Len(last.calls)].arg.c, LAMBDA y :
          /\ heap[y].parent # NULL
          /\ heap[heap[y].parent].parent = m.root)

\* The slots of the pool marked as in use.
InUse(pl) == {s \in Slots : pl[s].in_use = 1}

\* C29: in the pool variant, before and after every call, a slot is marked in
\* use exactly when it is reachable from the root, the number of slots in use
\* is size, and size is at most the capacity MAX_NODES.  The slot an erase has
\* released is free for the next insert: when an erase has returned Erased (1)
\* on a full pool, the insert of an absent key that follows returns Inserted
\* (1), and the node it adds is the slot the erase released.
C29_SlotAccounting ==
    [][strategy = "pool"
        => /\ InUse(pm.pool) = Reach
           /\ Cardinality(InUse(pm.pool)) = pm.size
           /\ pm.size <= MAX_NODES
           /\ \A k \in Keys :
                 (/\ last.op = "erase" /\ last.rc = 1 /\ pm.size = MAX_NODES - 1
                  /\ last'.op = "insert" /\ last'.key = k /\ Holders(k) = {})
                 => /\ last'.rc = 1
                    /\ pm'.size = MAX_NODES
                    /\ \A s \in Slots \ InUse(pm.pool) :
                          pm'.pool[s].in_use = 1 /\ pm'.pool[s].key = k]_vars

\* The pool is full again: the last call was an insert that returned Inserted,
\* and the slot it took is not the one a scan of an untouched pool would reach
\* last, so it was handed back by an erase.
C29_Witness ==
    /\ strategy = "pool"
    /\ last.op = "insert" /\ last.rc = 1
    /\ pm.size = MAX_NODES
    /\ \E s \in Slots : s < MAX_NODES /\ pm.pool[s].key = last.key /\ pm.pool[s].in_use = 1

\* C30: in the dynamic map next and prev undo each other on the stored nodes.
\* For every reachable node x: when map_next(x) is a node, map_prev of that node
\* is x, and when map_prev(x) is a node, map_next of that node is x; each of the
\* two is a reachable node or the end sentinel; map_next of the node with the
\* greatest key and map_prev of the node with the least key are the end
\* sentinel map_end; and map_next and map_prev of the end sentinel are the end
\* sentinel.
C30_NextPrevInverse ==
    strategy = "dynamic"
      => /\ \A x \in Reach :
               /\ map_next(heap, x) \in Reach \cup {map_end(S)}
               /\ map_prev(heap, x) \in Reach \cup {map_end(S)}
               /\ map_next(heap, x) \in Reach => map_prev(heap, map_next(heap, x)) = x
               /\ map_prev(heap, x) \in Reach => map_next(heap, map_prev(heap, x)) = x
               /\ (\A y \in Reach : ~KeyLess(x, y)) => map_next(heap, x) = map_end(S)
               /\ (\A y \in Reach : ~KeyLess(y, x)) => map_prev(heap, x) = map_end(S)
         /\ map_next(heap, map_end(S)) = map_end(S)
         /\ map_prev(heap, map_end(S)) = map_end(S)

\* The caller has stepped back with prev from a node to the node before it,
\* which is not its child but the rightmost node under its left child, in a map
\* of four keys; next of the node reached is the node the caller came from.
C30_Witness ==
    /\ strategy = "dynamic" /\ pc = "open"
    /\ SizeField = 4
    /\ last.op = "prev" /\ last.it \in Reach
    /\ map_next(heap, last.it) \in Reach
    /\ heap[last.it].parent # map_next(heap, last.it)
    /\ heap[map_next(heap, last.it)].left # NULL
    /\ map_prev(heap, map_next(heap, last.it)) = last.it

====
